---- MODULE Spec2Model ----
(***************************************************************************)
(* Model of the tme-staff onboarding application.                          *)
(*                                                                         *)
(* SpecAI    : the vision-model pipeline: PhotoUpload.handleFileSelect,    *)
(*             the API routes, validatePhoto / validatePassportPage /      *)
(*             extractPassport, getAnthropicClient and withTimeout.        *)
(*                                                                         *)
(* SpecStore : the stored row and the page sessions that read and update   *)
(*             it (OnboardingPage, lib/supabase).                          *)
(* SpecDocs  : the documents of one EmployeeForm with overlapping photo    *)
(*             and passport selections.                                    *)
(* SpecEmployeeForm, SpecEmployerForm : the rules the two forms apply      *)
(*             before they call onSubmit, and the validators of lib/utils. *)
(* SpecSalary : the salary section of EmployerForm (SalaryBreakdown,       *)
(*             calculateSalaryBreakdown, validateSalaryBreakdown).         *)
(* SpecNotify : the notify-employer-complete route.                        *)
(* SpecClient : the lazily built client of lib/anthropic.                  *)
(* SpecSignature : SignaturePad and its undo history.                      *)
(* SpecUploads : PhotoUpload and PassportUpload, routes left open.         *)
(* SpecPassportPages : PassportMultiUpload with its two slots.             *)
(*                                                                         *)
(* A model reply is a sequence of tokens:                                  *)
(*   "{" "}"  the two brace characters                                     *)
(*   "T"      the member carrying the expected field with a proper value   *)
(*            ("valid": true / "page_type": "COVER" / "success": true)     *)
(*   "o"      the members carrying the optional fields (confidence,        *)
(*            errors, suggestions, details, error)                         *)
(*   "x"      any other text without braces                                *)
(***************************************************************************)
EXTENDS Integers, Sequences, FiniteSets, TLC

\* ------------------------------------------------------------------ bounds
MaxTextLen == 3

Alphabet == {"{", "}", "T", "o", "x"}
Texts == UNION {[1..n -> Alphabet] : n \in 0..MaxTextLen}

\* response.content: either no text block, or a text block with a text
Replies == {[hasText |-> FALSE, text |-> <<>>]} \cup {[hasText |-> TRUE, text |-> t] : t \in Texts}
NoReply == [hasText |-> FALSE, text |-> <<"x">>]

VARIABLES
  envKey,           \* process.env.ANTHROPIC_API_KEY is set
  anthropicClient,  \* the module-level singleton: "null" or "client"
  fn,               \* library function of the current invocation
  caller,           \* "route" or "direct"
  img,              \* argument of the library function
  lpc,              \* position of the library invocation
  requests,         \* client.messages.create calls of the current invocation
  p,                \* the promise of client.messages.create
  reply,            \* what p was fulfilled with
  timer,            \* the timer of withTimeout
  race,             \* the promise returned by withTimeout
  parsed,           \* jsonMatch[0], the text handed to JSON.parse
  lresult,          \* what the library invocation settled with
  route,            \* the API route handling the current POST
  origin,           \* who sent the POST: "PhotoUpload" or another "client"
  rpc,              \* position of the route handler
  reqBody,          \* the body of the POST
  expectedType,     \* expectedType of a validate-passport-page body
  resp,             \* the route's answer
  pu,               \* PhotoUpload component state
  \* --- SpecStore: the stored row and the open page sessions
  row,              \* the row of staff_onboarding_submissions
  sess,             \* per page session: the state of OnboardingPage and its form
  sectionPatches,   \* section-completion updates applied to the row
  docPatches,       \* updateDocumentReferences updates applied to the row
  ef,               \* one EmployeeForm with its PhotoUpload and PassportUpload
  stored,           \* the documents column of the row that form writes
  employeeForm,     \* the values an EmployeeForm holds
  employeeOutcome,  \* what the last submit of that form did
  employerForm,     \* the values an EmployerForm holds
  employerOutcome,  \* what the last submit of that form did
  nt,               \* one process serving POST /api/notify-employer-complete
  sdk,              \* lib/anthropic in one process, with the history of its calls
  sp,               \* SignaturePad: the canvas, the undo history and the flags
  photoUp,          \* PhotoUpload: state, prop and call counts
  passportUp,       \* PassportUpload: state, prop and call counts
  pm                \* PassportMultiUpload: the pages, the calls of handleUpload, the last report

aiVars == <<envKey, anthropicClient, fn, caller, img, lpc, requests, p, reply, timer,
            race, parsed, lresult, route, origin, rpc, reqBody, expectedType, resp, pu>>

storeVars == <<row, sess, sectionPatches, docPatches>>

docVars == <<ef, stored>>

formVars == <<employeeForm, employeeOutcome, employerForm, employerOutcome>>

notifyVars == <<nt>>

clientVars == <<sdk>>

sigVars == <<sp>>

uploadVars == <<photoUp, passportUp>>

pagesVars == <<pm>>

vars ==
  <<aiVars, storeVars, docVars, formVars, notifyVars, clientVars, sigVars, uploadVars,
    pagesVars>>

\* ------------------------------------------------------------- reply parsing

Range(s) == {s[i] : i \in 1..Len(s)}

Min(S) == CHOOSE m \in S : \A n \in S : m <= n
Max(S) == CHOOSE m \in S : \A n \in S : m >= n

Positions(s, ch) == {i \in 1..Len(s) : s[i] = ch}

\* textBlock.text.match(/\{[\s\S]*\}/): leftmost "{", then as much as possible up
\* to a "}"; <<>> stands for null (a match has at least two tokens)
RegexMatchLazy(s) ==
  IF Positions(s, "{") = {} THEN <<>>
  ELSE LET i == Min(Positions(s, "{"))
           js == {j \in Positions(s, "}") : j > i}
       IN  IF js = {} THEN <<>> ELSE SubSeq(s, i, Min(js))

RegexMatch(s) ==
  IF Positions(s, "{") = {} THEN <<>>
  ELSE LET i == Min(Positions(s, "{"))
           js == {j \in Positions(s, "}") : j > i}
       IN  IF js = {} THEN <<>> ELSE SubSeq(s, i, Max(js))

\* JSON.parse accepts "{" members "}" and throws a SyntaxError on anything else
WellFormed(m) ==
  /\ Len(m) >= 2
  /\ m[1] = "{"
  /\ m[Len(m)] = "}"
  /\ \A i \in 2..(Len(m) - 1) : m[i] \in {"T", "o"}

JsonParse(m) ==
  IF WellFormed(m)
  THEN [ok |-> TRUE, T |-> "T" \in Range(m), o |-> "o" \in Range(m)]
  ELSE [ok |-> FALSE, T |-> FALSE, o |-> FALSE]

\* ------------------------------------------------------------ library results

PhotoFallback ==
  [valid |-> FALSE,
   errors |-> <<"Unable to validate photo. Please try again.">>,
   suggestions |-> <<"Ensure the image is clear and try uploading again.">>,
   confidence |-> 0]

PageFallback ==
  [page_type |-> "INVALID", confidence |-> 0,
   details |-> "Unable to validate passport page. Please try again."]

ExtractFallback ==
  [success |-> FALSE, data |-> "{}", confidence |-> "{}", mrz_verified |-> FALSE,
   error |-> "Unable to extract passport data. Please ensure the image is clear and try again."]

ExtractPdf ==
  [success |-> FALSE, data |-> "{}", confidence |-> "{}", mrz_verified |-> FALSE,
   error |-> "Please upload an image file (JPG or PNG) of your passport, not a PDF."]

Fallback(f) ==
  CASE f = "validatePhoto" -> PhotoFallback
    [] f = "validatePassportPage" -> PageFallback
    [] OTHER -> ExtractFallback

\* the try block after the await: text block, regex, JSON.parse, structure check
PhotoFromReply(r) ==
  IF ~r.hasText THEN PhotoFallback
  ELSE LET m == RegexMatch(r.text)
           j == JsonParse(m)
       IN  IF m = <<>> \/ ~j.ok \/ ~j.T THEN PhotoFallback
           ELSE [valid |-> TRUE,
                 errors |-> IF j.o THEN <<"model error">> ELSE <<>>,
                 suggestions |-> IF j.o THEN <<"model suggestion">> ELSE <<>>,
                 confidence |-> IF j.o THEN 95 ELSE 0]

PageFromReply(r) ==
  IF ~r.hasText THEN PageFallback
  ELSE LET m == RegexMatch(r.text)
           j == JsonParse(m)
       IN  IF m = <<>> \/ ~j.ok THEN PageFallback
           ELSE [page_type |-> IF j.T THEN "COVER" ELSE "INVALID",
                 confidence |-> IF j.o THEN 95 ELSE 0,
                 details |-> IF j.o THEN "model details" ELSE "Unable to determine page type"]

ExtractFromReply(r) ==
  IF ~r.hasText THEN ExtractFallback
  ELSE LET m == RegexMatch(r.text)
           j == JsonParse(m)
       IN  IF m = <<>> \/ ~j.ok \/ ~j.T THEN ExtractFallback
           ELSE [success |-> TRUE, data |-> "{}",
                 confidence |-> IF j.o THEN "model confidence" ELSE "{}",
                 mrz_verified |-> FALSE,
                 error |-> IF j.o THEN "model error" ELSE "undefined"]

FromReply(f, r) ==
  CASE f = "validatePhoto" -> PhotoFromReply(r)
    [] f = "validatePassportPage" -> PageFromReply(r)
    [] OTHER -> ExtractFromReply(r)

\* jsonMatch[0] when the try block gets as far as JSON.parse, <<>> otherwise
HandedToParse(r) == IF r.hasText THEN RegexMatch(r.text) ELSE <<>>


\* ------------------------------------------------------- the stored row
MaxSessions == 2
MaxPatches == 3
MaxDocPatches == 1

Sessions == 1..MaxSessions

\* 0 is null, 1 a filled form or an uploaded document; a signature is 1 when
\* drawn in the employer form and 2 when drawn in the employee form
NoDocs == [photo |-> 0, validated |-> FALSE, passport |-> 0]

RowInit(same, st) ==
  [status |-> st, current_step |-> "employer", is_same_person |-> same,
   employer_data |-> 0, employer_signature_data |-> 0,
   employee_data |-> 0, employee_signature_data |-> 0,
   documents |-> NoDocs]

NoSubmission == [none |-> TRUE]
NoPending == [op |-> "none"]

\* the state of one OnboardingPage and of the EmployeeForm it mounts; the text of
\* the error banner, which is displayed and never read, is not part of it
SessInit ==
  [pageState |-> "loading", submission |-> NoSubmission, isSubmitting |-> FALSE,
   employerData |-> 0, showEmployeeSection |-> FALSE,
   docs |-> NoDocs, pending |-> NoPending]

\* --- the documents of one employee form
MaxPhotos == 2
MaxPassports == 1

\* the n-th photo file selected and the m-th passport file selected
PhotoFiles == 1..MaxPhotos
PassportFiles == 1..MaxPassports

\* photoDoc undefined; resultOf names the file whose validation request produced
\* validated and validation_errors, 0 when no result has been attached
NoPhoto == [file |-> 0, validated |-> FALSE, resultOf |-> 0]

EfInit ==
  [photoDocRef |-> NoPhoto, passportDocRef |-> 0,
   photoSel |-> [n \in PhotoFiles |-> "none"],
   passSel |-> [m \in PassportFiles |-> "none"],
   preview |-> 0, previewPending |-> {},
   isUploading |-> FALSE, isValidating |-> FALSE, validationErrors |-> FALSE]

NoStored == [photo |-> NoPhoto, passport |-> 0]

\* the value of the document variables in the specifications that do not use them
DocsIdle == ef = EfInit /\ stored = NoStored

\* --- the two forms; a text value is the sequence of its characters
EmployeeFormInit ==
  [personal_email |-> <<>>, mobile_uae |-> <<>>, has_uae_bank |-> FALSE,
   bank_iban |-> <<>>, others |-> FALSE, photoDoc |-> FALSE, signature |-> FALSE]

\* useForm's defaultValues; a number input is <<>> when empty and <<n>> otherwise
EmployerFormInit ==
  [job_title |-> "", job_title_custom |-> "", department |-> "",
   department_custom |-> "", salary_total |-> <<>>, salary_basic |-> <<>>,
   salary_accommodation |-> <<>>, salary_transport |-> <<>>, salary_food |-> <<>>,
   salary_other |-> <<>>, weekly_off |-> "saturday_sunday",
   starting_date |-> "", annual_leave_days |-> <<30>>, notice_period_value |-> <<1>>,
   probation_period_value |-> <<6>>, signature |-> FALSE]

\* the value of the form variables in the specifications that do not use them
FormsIdle ==
  /\ employeeForm = EmployeeFormInit /\ employeeOutcome = "none"
  /\ employerForm = EmployerFormInit /\ employerOutcome = "none"

\* --- the notify-employer-complete route
MaxNotifyPosts == 3

NoAnswer == [status |-> 0, body |-> [none |-> TRUE]]

\* posts counts the POSTs the route has received, sent the requests to the
\* portal of the current invocation
NtInit ==
  [pc |-> "idle", body |-> "none", posts |-> 0, sent |-> 0,
   portal |-> NoAnswer, resp |-> NoAnswer]

\* the value of the notify variable in the specifications that do not use it
NotifyIdle == nt = NtInit

\* --- the module state of lib/anthropic with the identity of the client
MaxClientCalls == 5

\* the values of process.env.ANTHROPIC_API_KEY; "" is unset
ApiKeys == {"", "k1", "k2"}

\* anthropicClient = null
NoClient == [id |-> 0, apiKey |-> ""]

\* built counts the constructions of an Anthropic client, results lists what
\* each call of getAnthropicClient did
SdkInit == [key |-> "", cached |-> NoClient, built |-> 0, results |-> <<>>]

\* the value of the client variable in the specifications that do not use it
ClientIdle == sdk = SdkInit

\* --- SignaturePad; a canvas image is a number, 0 the blank canvas
MaxStrokes == 12

\* signature is the last value given to onSignatureChange (0 for null),
\* strokes counts the strokes begun
SpInit ==
  [canvas |-> 0, isEmpty |-> TRUE, history |-> <<>>, canUndo |-> FALSE,
   signature |-> 0, drawing |-> FALSE, strokes |-> 0]

\* the value of the signature pad variable in the specifications that do not use it
SigIdle == sp = SpInit

\* --- PhotoUpload and PassportUpload inside EmployeeForm
MaxSelects == 2

\* value is the prop the parent passes; onUploadCalls, posts and rejected
\* count the calls of onUpload, the calls of the route and the files rejected
PhotoUploadInit ==
  [value |-> FALSE, preview |-> FALSE, readers |-> 0, pc |-> "idle",
   isUploading |-> FALSE, isValidating |-> FALSE, validationErrors |-> <<>>,
   uploadError |-> "null", onUploadCalls |-> 0, posts |-> 0, rejected |-> 0]

PassportUploadInit ==
  [value |-> FALSE, preview |-> FALSE, readers |-> 0, pc |-> "idle",
   isUploading |-> FALSE, isExtracting |-> FALSE, extracted |-> FALSE,
   uploadError |-> "null", onUploadCalls |-> 0, posts |-> 0, rejected |-> 0]

\* the value of the upload variables in the specifications that do not use them
UploadsIdle == photoUp = PhotoUploadInit /\ passportUp = PassportUploadInit

\* --- PassportMultiUpload; a file is a number, 0 is null
MaxPageUploads == 2

PageKeys == {"cover", "insidePages"}

\* a PassportPage with nothing in it
EmptyPage ==
  [file |-> 0, preview |-> 0, validated |-> FALSE, validating |-> FALSE,
   error |-> "null", storagePath |-> 0]

EmptyPages == [k \in PageKeys |-> EmptyPage]

\* a call of handleUpload for a page: where it stands, its file, the pages
\* of the render it was made in, what it returned, how many calls the page
\* has had, and whether the page was removed after the call was made
NoCall ==
  [pc |-> "idle", file |-> 0, pages |-> EmptyPages, result |-> "none", n |-> 0,
   removed |-> FALSE]

\* report is the last value given to onPagesChange
PmInit ==
  [pages |-> EmptyPages, call |-> [k \in PageKeys |-> NoCall],
   report |-> [none |-> TRUE]]

\* the value of the passport pages variable in the specifications that do not use it
PagesIdle == pm = PmInit

\* the value of the store variables in the specifications that do not use them
StoreIdle ==
  /\ row = RowInit(FALSE, "pending")
  /\ sess = [s \in Sessions |-> SessInit]
  /\ sectionPatches = 0
  /\ docPatches = 0

\* ------------------------------------------------------------------- SpecAI

NoResult == [none |-> TRUE]
Rejected(msg) == [rejected |-> msg]
NoResp == [status |-> 0, body |-> NoResult]

PuInit ==
  [pc |-> "idle", file |-> "none", reading |-> FALSE, preview |-> FALSE, isUploading |-> FALSE,
   isValidating |-> FALSE, validationErrors |-> <<>>, uploadError |-> "null",
   onUploadCalls |-> 0, posts |-> 0, onValidated |-> "none"]

LibFunctions == {"validatePhoto", "validatePassportPage", "extractPassport"}
Routes == {"validate-photo", "extract-passport", "validate-passport-page"}
Bodies == {"unreadable", "noImage", "nonString", "image", "pdf"}
ExpectedTypes == {"none", "COVER", "INSIDE_PAGES"}

LibOf(rt) ==
  CASE rt = "validate-photo" -> "validatePhoto"
    [] rt = "extract-passport" -> "extractPassport"
    [] OTHER -> "validatePassportPage"

\* the part of the state SpecAI leaves alone
OnlyAI ==
  UNCHANGED <<storeVars, docVars, formVars, notifyVars, clientVars, sigVars,
              uploadVars, pagesVars>>

\* no request under way, no client constructed yet
AIRest ==
  /\ anthropicClient = "null"
  /\ fn = "none" /\ caller = "none" /\ img = "none"
  /\ lpc = "none" /\ requests = 0
  /\ p = "none" /\ reply = NoReply /\ timer = "none" /\ race = "none"
  /\ parsed = <<>> /\ lresult = NoResult
  /\ route = "none" /\ origin = "none" /\ rpc = "idle" /\ reqBody = "none"
  /\ expectedType = "none" /\ resp = NoResp
  /\ pu = PuInit

\* the value of the pipeline variables in the specifications that do not use them
AIIdle == envKey = TRUE /\ AIRest

InitAI ==
  /\ envKey \in BOOLEAN
  /\ AIRest
  /\ StoreIdle
  /\ DocsIdle
  /\ FormsIdle
  /\ PagesIdle
  /\ UploadsIdle
  /\ SigIdle
  /\ ClientIdle
  /\ NotifyIdle

Idle == rpc = "idle" /\ lpc = "none" /\ pu.pc = "idle"

\* getAnthropicClient(): the cached client, a new one, or a throw
getAnthropicClient ==
  IF anthropicClient = "null" /\ ~envKey
  THEN [threw |-> TRUE, client |-> anthropicClient]
  ELSE [threw |-> FALSE, client |-> "client"]

\* The synchronous part of validatePhoto / validatePassportPage / extractPassport,
\* up to the await of withTimeout(client.messages.create(...), t).
LibEnter(f, image) ==
  LET g == getAnthropicClient IN
  /\ fn' = f
  /\ img' = image
  /\ anthropicClient' = g.client
  /\ reply' = NoReply
  /\ parsed' = <<>>
  /\ IF g.threw
     THEN /\ lpc' = "rejected"
          /\ lresult' = Rejected("ANTHROPIC_API_KEY not configured")
          /\ requests' = 0 /\ p' = "none" /\ timer' = "none" /\ race' = "none"
     ELSE IF image = "nonString"
     THEN \* imageBase64.replace is not a function, outside the try block
          /\ lpc' = "rejected"
          /\ lresult' = Rejected("TypeError")
          /\ requests' = 0 /\ p' = "none" /\ timer' = "none" /\ race' = "none"
     ELSE IF f = "extractPassport" /\ image = "pdf"
     THEN /\ lpc' = "resolved"
          /\ lresult' = ExtractPdf
          /\ requests' = 0 /\ p' = "none" /\ timer' = "none" /\ race' = "none"
     ELSE \* client.messages.create is called once and raced against the timer
          /\ lpc' = "awaiting"
          /\ lresult' = NoResult
          /\ requests' = requests + 1
          /\ p' = "pending" /\ timer' = "armed" /\ race' = "pending"

\* a caller of the library other than the routes
DirectCall(f, image) ==
  /\ OnlyAI
  /\ Idle
  /\ caller' = "direct"
  /\ LibEnter(f, image)
  /\ UNCHANGED <<envKey, route, origin, rpc, reqBody, expectedType, resp, pu>>

\* --- withTimeout: Promise.race([promise, timeoutPromise])
RaceOnPromise(r, outcome) == IF r = "pending" THEN outcome ELSE r
RaceOnTimerLate(r) == "timeout"
RaceOnTimer(r) == IF r = "pending" THEN "timeout" ELSE r

PromiseFulfils(r) ==
  /\ OnlyAI
  /\ p = "pending"
  /\ p' = "fulfilled"
  /\ reply' = IF race = "pending" THEN r ELSE reply  \* a late value is never read
  /\ race' = RaceOnPromise(race, "fulfilled")
  /\ UNCHANGED <<envKey, anthropicClient, fn, caller, img, lpc, requests, timer, parsed,
                 lresult, route, origin, rpc, reqBody, expectedType, resp, pu>>

PromiseRejects ==
  /\ OnlyAI
  /\ p = "pending"
  /\ p' = "rejected"
  /\ race' = RaceOnPromise(race, "rejected")
  /\ UNCHANGED <<envKey, anthropicClient, fn, caller, img, lpc, requests, reply, timer,
                 parsed, lresult, route, origin, rpc, reqBody, expectedType, resp, pu>>

TimerFires ==
  /\ OnlyAI
  /\ timer = "armed"
  /\ timer' = "fired"
  /\ race' = RaceOnTimer(race)
  /\ UNCHANGED <<envKey, anthropicClient, fn, caller, img, lpc, requests, p, reply,
                 parsed, lresult, route, origin, rpc, reqBody, expectedType, resp, pu>>

\* a continuation without the catch block: the rejection leaves the function
LibResumeNoCatch ==
  /\ OnlyAI
  /\ lpc = "awaiting"
  /\ race \in {"fulfilled", "rejected", "timeout"}
  /\ IF race = "fulfilled"
     THEN /\ lpc' = "resolved"
          /\ lresult' = FromReply(fn, reply)
          /\ parsed' = HandedToParse(reply)
     ELSE /\ lpc' = "rejected"
          /\ lresult' = Rejected(race)
          /\ parsed' = <<>>
  /\ UNCHANGED <<envKey, anthropicClient, fn, caller, img, requests, p, reply, timer,
                 race, route, origin, rpc, reqBody, expectedType, resp, pu>>

\* a continuation that calls the model a second time after a failure
LibResumeRetry ==
  /\ OnlyAI
  /\ lpc = "awaiting"
  /\ race \in {"fulfilled", "rejected", "timeout"}
  /\ IF race = "fulfilled"
     THEN /\ lpc' = "resolved"
          /\ lresult' = FromReply(fn, reply)
          /\ parsed' = HandedToParse(reply)
          /\ UNCHANGED <<requests, p, timer, race>>
     ELSE IF requests < 2 /\ p # "pending" /\ timer # "armed"
     THEN /\ requests' = requests + 1
          /\ p' = "pending" /\ timer' = "armed" /\ race' = "pending"
          /\ UNCHANGED <<lpc, lresult, parsed>>
     ELSE /\ lpc' = "resolved"
          /\ lresult' = Fallback(fn)
          /\ parsed' = <<>>
          /\ UNCHANGED <<requests, p, timer, race>>
  /\ UNCHANGED <<envKey, anthropicClient, fn, caller, img, reply,
                 route, origin, rpc, reqBody, expectedType, resp, pu>>

\* The continuation of the library function after the await: the rest of the try
\* block when the race fulfilled, the catch block when it rejected.
LibResume ==
  /\ OnlyAI
  /\ lpc = "awaiting"
  /\ race \in {"fulfilled", "rejected", "timeout"}
  /\ lpc' = "resolved"
  /\ IF race = "fulfilled"
     THEN /\ lresult' = FromReply(fn, reply)
          /\ parsed' = HandedToParse(reply)
     ELSE /\ lresult' = Fallback(fn)
          /\ parsed' = <<>>
  /\ UNCHANGED <<envKey, anthropicClient, fn, caller, img, requests, p, reply, timer,
                 race, route, origin, rpc, reqBody, expectedType, resp, pu>>

\* --- the API routes

\* NextResponse.json(obj): JSON.stringify drops a property whose value is undefined
NextResponseJson(r) ==
  IF "error" \in DOMAIN r /\ r.error = "undefined"
  THEN [k \in DOMAIN r \ {"error"} |-> r[k]]
  ELSE r

PhotoBody(e, s) == [valid |-> FALSE, errors |-> <<e>>, suggestions |-> <<s>>, confidence |-> 0]
ExtractBody(e) ==
  [success |-> FALSE, data |-> "{}", confidence |-> "{}", mrz_verified |-> FALSE, error |-> e]

\* routes without the check of ANTHROPIC_API_KEY
RouteEarlyNoKeyCheck(rt, body) ==
  CASE rt = "validate-photo" ->
         IF body = "unreadable"
           THEN [status |-> 500, body |-> PhotoBody("An error occurred during validation", "Please try again")]
         ELSE IF body = "noImage"
           THEN [status |-> 400, body |-> PhotoBody("No image provided", "Please upload an image")]
         ELSE IF body = "nonString"
           THEN [status |-> 400, body |-> PhotoBody("Invalid image format", "Please provide a base64 encoded image")]
         ELSE NoResp
    [] rt = "extract-passport" ->
         IF body = "unreadable"
           THEN [status |-> 500, body |-> ExtractBody("An error occurred during extraction")]
         ELSE IF body = "noImage"
           THEN [status |-> 400, body |-> ExtractBody("No image provided")]
         ELSE IF body = "nonString"
           THEN [status |-> 400, body |-> ExtractBody("Invalid image format")]
         ELSE NoResp
    [] OTHER ->
         IF body = "unreadable"
           THEN [status |-> 500, body |-> [error |-> "Failed to validate passport page"]]
         ELSE IF body = "noImage"
           THEN [status |-> 400, body |-> [error |-> "Image is required"]]
         ELSE NoResp

\* the answers a route gives without calling the library
RouteEarly(rt, body) ==
  CASE rt = "validate-photo" ->
         IF body = "unreadable"
           THEN [status |-> 500, body |-> PhotoBody("An error occurred during validation", "Please try again")]
         ELSE IF body = "noImage"
           THEN [status |-> 400, body |-> PhotoBody("No image provided", "Please upload an image")]
         ELSE IF body = "nonString"
           THEN [status |-> 400, body |-> PhotoBody("Invalid image format", "Please provide a base64 encoded image")]
         ELSE IF ~envKey
           THEN [status |-> 503, body |-> PhotoBody("Photo validation service unavailable", "Please try again later")]
         ELSE NoResp
    [] rt = "extract-passport" ->
         IF body = "unreadable"
           THEN [status |-> 500, body |-> ExtractBody("An error occurred during extraction")]
         ELSE IF body = "noImage"
           THEN [status |-> 400, body |-> ExtractBody("No image provided")]
         ELSE IF body = "nonString"
           THEN [status |-> 400, body |-> ExtractBody("Invalid image format")]
         ELSE IF ~envKey
           THEN [status |-> 503, body |-> ExtractBody("Passport extraction service unavailable")]
         ELSE NoResp
    [] OTHER ->
         IF body = "unreadable"
           THEN [status |-> 500, body |-> [error |-> "Failed to validate passport page"]]
         ELSE IF body = "noImage"
           THEN [status |-> 400, body |-> [error |-> "Image is required"]]
         ELSE NoResp

\* the answer of a route once the library call has settled
RouteLate(rt, et, settled, result) ==
  IF settled = "rejected"
  THEN CASE rt = "validate-photo" ->
              [status |-> 500, body |-> PhotoBody("An error occurred during validation", "Please try again")]
         [] rt = "extract-passport" ->
              [status |-> 500, body |-> ExtractBody("An error occurred during extraction")]
         [] OTHER ->
              [status |-> 500, body |-> [error |-> "Failed to validate passport page"]]
  ELSE IF rt = "validate-passport-page"
  THEN LET matches == ~(et # "none" /\ result.page_type # et)
       IN [status |-> 200,
           body |-> [page_type |-> result.page_type, confidence |-> result.confidence,
                     details |-> result.details, matches |-> matches,
                     errorMessage |-> IF matches THEN "null" ELSE "mismatch"]]
  ELSE [status |-> 200, body |-> NextResponseJson(result)]

\* POST handler up to its await of the library call
RouteEnter(rt, body, et, from) ==
  /\ route' = rt
  /\ origin' = from
  /\ reqBody' = body
  /\ expectedType' = et
  /\ IF RouteEarly(rt, body) # NoResp
     THEN /\ rpc' = "responded"
          /\ resp' = RouteEarly(rt, body)
          /\ UNCHANGED <<anthropicClient, fn, caller, img, lpc, requests, p, reply, timer,
                         race, parsed, lresult>>
     ELSE /\ rpc' = "inLib"
          /\ resp' = NoResp
          /\ caller' = "route"
          /\ LibEnter(LibOf(rt), body)

Post(rt, body, et) ==
  /\ OnlyAI
  /\ Idle
  /\ rt = "validate-passport-page" \/ et = "none"
  /\ RouteEnter(rt, body, et, "client")
  /\ UNCHANGED <<envKey, pu>>

RouteResume ==
  /\ OnlyAI
  /\ rpc = "inLib"
  /\ lpc \in {"resolved", "rejected"}
  /\ rpc' = "responded"
  /\ resp' = RouteLate(route, expectedType, lpc, lresult)
  /\ reply' = NoReply
  /\ parsed' = <<>>
  /\ UNCHANGED <<envKey, anthropicClient, fn, caller, img, lpc, requests, p, timer,
                 race, lresult, route, origin, reqBody, expectedType, pu>>

\* --- PhotoUpload.handleFileSelect
Files == {"none", "notImage", "tooBig", "image"}

PUSelect(file) ==
  /\ OnlyAI
  /\ Idle
  /\ IF file = "none" THEN pu' = pu
     ELSE IF file = "notImage" THEN pu' = [pu EXCEPT !.uploadError = "Please select an image file"]
     ELSE IF file = "tooBig" THEN pu' = [pu EXCEPT !.uploadError = "File size must be less than 5MB"]
     ELSE pu' = [pu EXCEPT !.pc = "uploading", !.file = file, !.uploadError = "null",
                           !.validationErrors = <<>>, !.reading = TRUE,
                           !.isUploading = TRUE, !.onUploadCalls = @ + 1]
  /\ UNCHANGED <<envKey, anthropicClient, fn, caller, img, lpc, requests, p, reply, timer,
                 race, parsed, lresult, route, origin, rpc, reqBody, expectedType, resp>>

\* reader.onload of the preview reader
PUPreviewLoad ==
  /\ OnlyAI
  /\ pu.reading
  /\ pu' = [pu EXCEPT !.reading = FALSE, !.preview = TRUE]
  /\ UNCHANGED <<envKey, anthropicClient, fn, caller, img, lpc, requests, p, reply, timer,
                 race, parsed, lresult, route, origin, rpc, reqBody, expectedType, resp>>

\* onUpload(file) settles: a result, null, or a throw
PUUploadDone(res) ==
  /\ OnlyAI
  /\ pu.pc = "uploading"
  /\ IF res = "ok"
     THEN pu' = [pu EXCEPT !.pc = "reading", !.isValidating = TRUE, !.isUploading = FALSE]
     ELSE pu' = [pu EXCEPT !.pc = "done", !.uploadError = "Failed to upload file",
                           !.isUploading = FALSE]
  /\ UNCHANGED <<envKey, anthropicClient, fn, caller, img, lpc, requests, p, reply, timer,
                 race, parsed, lresult, route, origin, rpc, reqBody, expectedType, resp>>

PUCatch(sent) ==
  [pu EXCEPT !.pc = "done", !.isValidating = FALSE,
             !.validationErrors = <<"Unable to validate photo. Please try again.">>,
             !.onValidated = "false", !.posts = @ + sent]

\* reader.onload of the second reader: compress, then fetch('/api/validate-photo')
PUReaderLoad(outcome) ==
  /\ OnlyAI
  /\ pu.pc = "reading"
  /\ rpc = "idle" /\ lpc = "none"
  /\ IF outcome = "sent"
     THEN /\ pu' = [pu EXCEPT !.pc = "posting", !.posts = @ + 1]
          /\ RouteEnter("validate-photo", "image", "none", "PhotoUpload")
          /\ UNCHANGED envKey
     ELSE /\ pu' = PUCatch(IF outcome = "fetchFails" THEN 1 ELSE 0)
          /\ UNCHANGED <<envKey, anthropicClient, fn, caller, img, lpc, requests, p, reply,
                         timer, race, parsed, lresult, route, origin, rpc, reqBody,
                         expectedType, resp>>

\* the answer of /api/validate-photo arrives
PUResponse ==
  /\ OnlyAI
  /\ pu.pc = "posting"
  /\ origin = "PhotoUpload"
  /\ rpc = "responded"
  /\ IF resp.body.valid
     THEN pu' = [pu EXCEPT !.pc = "done", !.isValidating = FALSE,
                           !.validationErrors = <<>>, !.onValidated = "true"]
     ELSE pu' = [pu EXCEPT !.pc = "done", !.isValidating = FALSE,
                           !.validationErrors = resp.body.errors, !.onValidated = "false"]
  /\ UNCHANGED <<envKey, anthropicClient, fn, caller, img, lpc, requests, p, reply, timer,
                 race, parsed, lresult, route, origin, rpc, reqBody, expectedType, resp>>

\* process.env changes between requests (a redeploy with or without the key)
EnvChange ==
  /\ OnlyAI
  /\ Idle
  /\ envKey' = ~envKey
  /\ UNCHANGED <<anthropicClient, fn, caller, img, lpc, requests, p, reply, timer,
                 race, parsed, lresult, route, origin, rpc, reqBody, expectedType, resp, pu>>

Finished ==
  \/ pu.pc = "done"
  \/ origin = "client" /\ rpc = "responded"
  \/ caller = "direct" /\ lpc \in {"resolved", "rejected"}

\* the next request starts from a clean slate; the cached client stays
NextRequest ==
  /\ OnlyAI
  /\ Finished
  /\ p # "pending" /\ timer # "armed"
  /\ fn' = "none" /\ caller' = "none" /\ img' = "none"
  /\ lpc' = "none" /\ requests' = 0
  /\ p' = "none" /\ reply' = NoReply /\ timer' = "none" /\ race' = "none"
  /\ parsed' = <<>> /\ lresult' = NoResult
  /\ route' = "none" /\ origin' = "none" /\ rpc' = "idle" /\ reqBody' = "none"
  /\ expectedType' = "none" /\ resp' = NoResp
  /\ pu' = PuInit
  /\ UNCHANGED <<envKey, anthropicClient>>

NextAI ==
  \/ \E f \in LibFunctions, image \in {"image", "pdf"} : DirectCall(f, image)
  \/ \E rt \in Routes, body \in Bodies, et \in ExpectedTypes : Post(rt, body, et)
  \/ \E r \in Replies : PromiseFulfils(r)
  \/ PromiseRejects
  \/ TimerFires
  \/ LibResume
  \/ RouteResume
  \/ \E file \in Files : PUSelect(file)
  \/ PUPreviewLoad
  \/ \E res \in {"ok", "null", "throw"} : PUUploadDone(res)
  \/ \E outcome \in {"sent", "fetchFails", "compressThrows"} : PUReaderLoad(outcome)
  \/ PUResponse
  \/ EnvChange
  \/ NextRequest

SpecAI == InitAI /\ [][NextAI]_vars

\* ------------------------------------------------------ properties of SpecAI

Settled == lpc \in {"resolved", "rejected"}
HasReply == lpc = "resolved" /\ race = "fulfilled" /\ reply # NoReply

\* the reply gives no usable object: no text block, no match, or no JSON
ReplyUnusable(r) ==
  \/ ~r.hasText
  \/ RegexMatch(r.text) = <<>>
  \/ ~WellFormed(RegexMatch(r.text))

\* C1, as stated: every invocation resolves (also without ANTHROPIC_API_KEY), and
\* every failure of the model call or of the reply gives the canned fallback.
C1_AlwaysResolves ==
  /\ lpc # "rejected"
  /\ lpc = "resolved" /\ race \in {"rejected", "timeout"} => lresult = Fallback(fn)
  /\ HasReply /\ (ReplyUnusable(reply) \/ "T" \notin Range(RegexMatch(reply.text)))
       => lresult = Fallback(fn)

\* C1, amended: with a client at hand and a string argument the invocation
\* resolves for every outcome of the model call; a failed call, a reply without a
\* text block, without JSON or with unparsable JSON gives the canned fallback, and
\* so does JSON without the boolean field for validatePhoto and extractPassport,
\* while validatePassportPage answers JSON without a known page_type with
\* page_type INVALID and the reply's own confidence; without a key and without a
\* cached client the invocation rejects before any request is made.
C1_ResolvesOnceClientExists ==
  /\ lpc = "rejected" =>
       /\ requests = 0
       /\ \/ img = "nonString"
          \/ /\ anthropicClient = "null" /\ ~envKey
             /\ lresult = Rejected("ANTHROPIC_API_KEY not configured")
  /\ lpc = "resolved" /\ race \in {"rejected", "timeout"} => lresult = Fallback(fn)
  /\ HasReply /\ ReplyUnusable(reply) => lresult = Fallback(fn)
  /\ HasReply /\ ~ReplyUnusable(reply) /\ "T" \notin Range(RegexMatch(reply.text)) =>
       IF fn = "validatePassportPage"
       THEN /\ lresult.page_type = "INVALID"
            /\ lresult.confidence = (IF "o" \in Range(RegexMatch(reply.text)) THEN 95 ELSE 0)
       ELSE lresult = Fallback(fn)

C1_Witness ==
  /\ lpc = "resolved" /\ race = "timeout" /\ lresult = Fallback(fn)
  /\ fn = "validatePassportPage" /\ ~envKey

\* C2: withTimeout is a flat race. The returned promise settles once: with the
\* outcome of p when p settles first, with the timeout rejection when the timer
\* fires first; the later of the two changes nothing, and the timer firing neither
\* touches the request nor starts another one.
C2_FlatRace ==
  [][ /\ (race \in {"fulfilled", "rejected", "timeout"} /\ lpc' # "none") => race' = race
      /\ (race = "pending" /\ p = "pending" /\ p' # p) => race' = p'
      /\ (race = "pending" /\ timer = "armed" /\ timer' = "fired") => race' = "timeout"
      /\ (timer = "armed" /\ timer' = "fired") => (p' = p /\ requests' = requests)
    ]_vars

C2_Witness == race = "timeout" /\ timer = "fired" /\ p = "fulfilled" /\ requests = 1

\* C3: no retry. An invocation calls the model at most once, a file selection
\* makes at most one upload and at most one POST, and a failed or timed out call
\* ends in the generic error result after that single request.
C3_NoRetry ==
  /\ requests <= 1
  /\ pu.onUploadCalls <= 1
  /\ pu.posts <= 1
  /\ lpc = "resolved" /\ race \in {"rejected", "timeout"} =>
       requests = 1 /\ lresult = Fallback(fn)

C3_Witness ==
  /\ pu.pc = "done" /\ pu.posts = 1 /\ pu.onUploadCalls = 1
  /\ race = "timeout" /\ requests = 1 /\ pu.onValidated = "false"

\* the well-formed objects inside a text, and the first of them
Blocks(s) ==
  {b \in (1..Len(s)) \X (1..Len(s)) : b[1] < b[2] /\ WellFormed(SubSeq(s, b[1], b[2]))}
ContainsObject(s) == Blocks(s) # {}
FirstBlock(s) ==
  CHOOSE b \in Blocks(s) :
    \A c \in Blocks(s) : b[1] < c[1] \/ (b[1] = c[1] /\ b[2] <= c[2])
FirstObject(s) == SubSeq(s, FirstBlock(s)[1], FirstBlock(s)[2])
ObjectResult(f, obj) == FromReply(f, [hasText |-> TRUE, text |-> obj])
\* a "{" before the first object or a "}" after it
BraceAround(s) ==
  \/ \E i \in Positions(s, "{") : i < FirstBlock(s)[1]
  \/ \E j \in Positions(s, "}") : j > FirstBlock(s)[2]

\* C6, as stated: whenever the text contains a well-formed object, the first such
\* block is what JSON.parse gets and the result is the one of that object.
C6_FirstBlockParsed ==
  HasReply /\ reply.hasText /\ ContainsObject(reply.text) =>
    /\ parsed = FirstObject(reply.text)
    /\ lresult = ObjectResult(fn, FirstObject(reply.text))

\* C6, amended: JSON.parse gets the text from the first "{" to the last "}". That
\* is the first well-formed object exactly when no "{" precedes the object and no
\* "}" follows it, and then the result is the one of that object; otherwise
\* JSON.parse fails and the result is the fallback.
C6_FirstToLastBrace ==
  HasReply /\ reply.hasText =>
    /\ parsed # <<>> =>
         /\ parsed[1] = "{" /\ parsed[Len(parsed)] = "}"
         /\ \E i \in 1..(Len(reply.text) - Len(parsed) + 1) :
              /\ parsed = SubSeq(reply.text, i, i + Len(parsed) - 1)
              /\ \A k \in 1..(i - 1) : reply.text[k] # "{"
              /\ \A k \in (i + Len(parsed))..Len(reply.text) : reply.text[k] # "}"
    /\ ContainsObject(reply.text) /\ ~BraceAround(reply.text) =>
         /\ parsed = FirstObject(reply.text)
         /\ lresult = ObjectResult(fn, FirstObject(reply.text))
    /\ ContainsObject(reply.text) /\ BraceAround(reply.text) =>
         /\ parsed # FirstObject(reply.text)
         /\ lresult = Fallback(fn)

C6_Witness ==
  /\ HasReply /\ reply.hasText /\ ContainsObject(reply.text)
  /\ \E j \in Positions(reply.text, "}") : j > FirstBlock(reply.text)[2]
  /\ fn = "validatePassportPage" /\ lresult = PageFallback

PhotoKeys == {"valid", "errors", "suggestions", "confidence"}
ExtractKeys == {"success", "data", "confidence", "mrz_verified"}

\* C10: the answers of /api/validate-photo and /api/extract-passport, the checks
\* taken in the order of the handler: 500 for an unreadable body, 400 for a
\* missing or non-string image, 503 without ANTHROPIC_API_KEY, 200 with the
\* library result otherwise; no library call before a 400 or a 503; the body
\* always has the fields of the result type (error, optional in the type, is
\* there on every non-200 answer) and valid / success is false unless 200.
C10_RouteAnswers ==
  rpc = "responded" /\ route \in {"validate-photo", "extract-passport"} =>
    /\ resp.status \in {200, 400, 500, 503}
    /\ resp.status = 400 <=> reqBody \in {"noImage", "nonString"}
    /\ resp.status = 503 <=> reqBody \in {"image", "pdf"} /\ ~envKey
    /\ resp.status = 500 <=> reqBody = "unreadable" \/ lpc = "rejected"
    /\ resp.status = 200 => lpc = "resolved" /\ resp.body = NextResponseJson(lresult)
    /\ resp.status \in {400, 503} => lpc = "none" /\ requests = 0 /\ p = "none"
    /\ IF route = "validate-photo"
       THEN /\ DOMAIN resp.body = PhotoKeys
            /\ resp.status # 200 => resp.body.valid = FALSE
       ELSE /\ ExtractKeys \subseteq DOMAIN resp.body
            /\ DOMAIN resp.body \subseteq ExtractKeys \cup {"error"}
            /\ resp.status # 200 => resp.body.success = FALSE /\ "error" \in DOMAIN resp.body

C10_Witness ==
  /\ rpc = "responded" /\ route = "extract-passport" /\ resp.status = 503
  /\ anthropicClient = "client"

\* ------------------------------------------------------------------ SpecStore
\* the part of the state SpecStore leaves alone
OnlyStore ==
  UNCHANGED <<aiVars, docVars, formVars, notifyVars, clientVars, sigVars,
              uploadVars, pagesVars>>

\* --- the update statements of lib/supabase
updateEmployerData(r, data, signature) ==
  [r EXCEPT !.employer_data = data, !.employer_signature_data = signature,
            !.current_step = "employee", !.status = "employer_completed"]

updateEmployeeData(r, data, signature) ==
  [r EXCEPT !.employee_data = data, !.employee_signature_data = signature,
            !.current_step = "complete", !.status = "complete"]

\* updateSamePersonData with the signature stored for the employee section only
updateSamePersonDataOneSignature(r, employerData, employeeData, signature) ==
  [r EXCEPT !.employer_data = employerData,
            !.employee_data = employeeData, !.employee_signature_data = signature,
            !.current_step = "complete", !.status = "complete"]

updateSamePersonData(r, employerData, employeeData, signature) ==
  [r EXCEPT !.employer_data = employerData, !.employer_signature_data = signature,
            !.employee_data = employeeData, !.employee_signature_data = signature,
            !.current_step = "complete", !.status = "complete"]

updateDocumentReferencesAndStep(r, documents) ==
  [r EXCEPT !.documents = documents, !.current_step = "employee"]

updateDocumentReferences(r, documents) == [r EXCEPT !.documents = documents]

InitStore ==
  /\ AIIdle
  /\ DocsIdle
  /\ FormsIdle
  /\ PagesIdle
  /\ UploadsIdle
  /\ SigIdle
  /\ ClientIdle
  /\ NotifyIdle
  /\ row \in {RowInit(same, st) : same \in BOOLEAN, st \in {"pending", "cancelled"}}
  /\ sess = [s \in Sessions |-> SessInit]
  /\ sectionPatches = 0
  /\ docPatches = 0

\* fetchSubmission: the page state that follows from the row read
PageStateFor(data) ==
  IF data.status = "cancelled" THEN "cancelled"
  ELSE IF data.status = "complete" THEN "already_complete"
  ELSE IF data.is_same_person
       THEN (IF data.current_step = "employer" THEN "combined" ELSE "already_complete")
  ELSE data.current_step

\* the fields of the row read that the page and its forms use afterwards
Snapshot(data) ==
  [is_same_person |-> data.is_same_person, current_step |-> data.current_step,
   employer_signature_data |-> data.employer_signature_data]

\* the useEffect of OnboardingPage: one read of the row per page load
Load(s, outcome) ==
  /\ sess[s].pageState = "loading"
  /\ sess' = [sess EXCEPT ![s] =
       IF outcome = "null" THEN [@ EXCEPT !.pageState = "not_found"]
       ELSE IF outcome = "throw"
         THEN [@ EXCEPT !.pageState = "error"]
       ELSE [@ EXCEPT !.pageState = PageStateFor(row), !.submission = Snapshot(row),
                      !.docs = row.documents]]
  /\ UNCHANGED <<row, sectionPatches, docPatches>>
  /\ OnlyStore

EmployerFormShown(s) ==
  \/ sess[s].pageState = "employer"
  \/ sess[s].pageState = "combined" /\ ~sess[s].showEmployeeSection

EmployeeFormShown(s) ==
  \/ sess[s].pageState = "employee"
  \/ sess[s].pageState = "combined" /\ sess[s].showEmployeeSection

\* handleEmployerSubmit, up to its await; 1 stands for a filled form or a drawn signature
EmployerSubmit(s) ==
  /\ EmployerFormShown(s)
  /\ ~sess[s].isSubmitting
  /\ sess[s].submission # NoSubmission
  /\ IF sess[s].submission.is_same_person
     THEN sess' = [sess EXCEPT ![s] =
            [@ EXCEPT !.employerData = 1, !.showEmployeeSection = TRUE,
                      !.submission = [@ EXCEPT !.employer_signature_data = 1]]]
     ELSE /\ sectionPatches < MaxPatches
          /\ sess' = [sess EXCEPT ![s] =
               [@ EXCEPT !.isSubmitting = TRUE,
                         !.pending = [op |-> "updateEmployerData", employerData |-> 0,
                                      data |-> 1, signature |-> 1]]]
  /\ UNCHANGED <<row, sectionPatches, docPatches>>
  /\ OnlyStore

\* EmployeeForm.handleFormSubmit and handleEmployeeSubmit, up to the await
EmployeeSubmit(s) ==
  /\ EmployeeFormShown(s)
  /\ ~sess[s].isSubmitting
  /\ sess[s].submission # NoSubmission
  /\ sess[s].docs.photo # 0
  /\ sectionPatches < MaxPatches
  /\ LET sub == sess[s].submission
         signatureToUse ==
           IF sub.is_same_person /\ sub.employer_signature_data # 0
           THEN sub.employer_signature_data ELSE 2
     IN sess' = [sess EXCEPT ![s] =
          [@ EXCEPT !.isSubmitting = TRUE,
                    !.pending =
                      IF sub.is_same_person /\ sess[s].employerData # 0
                      THEN [op |-> "updateSamePersonData",
                            employerData |-> sess[s].employerData, data |-> 1,
                            signature |-> IF sub.employer_signature_data # 0
                                          THEN sub.employer_signature_data
                                          ELSE signatureToUse]
                      ELSE [op |-> "updateEmployeeData", employerData |-> 0,
                            data |-> 1, signature |-> signatureToUse]]]
  /\ UNCHANGED <<row, sectionPatches, docPatches>>
  /\ OnlyStore

Applied(r, q) ==
  CASE q.op = "updateEmployerData" -> updateEmployerData(r, q.data, q.signature)
    [] q.op = "updateEmployeeData" -> updateEmployeeData(r, q.data, q.signature)
    [] OTHER -> updateSamePersonData(r, q.employerData, q.data, q.signature)

\* the handlers with the success page shown whatever the update returned
StoreAnswersAlwaysSuccess(s, outcome) ==
  /\ sess[s].pending # NoPending
  /\ IF outcome = "ok"
     THEN /\ row' = Applied(row, sess[s].pending)
          /\ sectionPatches' = sectionPatches + 1
     ELSE UNCHANGED <<row, sectionPatches>>
  /\ sess' = [sess EXCEPT ![s] =
       [@ EXCEPT !.pageState = "success", !.isSubmitting = FALSE, !.pending = NoPending]]
  /\ UNCHANGED docPatches
  /\ OnlyStore

\* the store answers the pending update and the handler continues after its await
StoreAnswers(s, outcome) ==
  /\ sess[s].pending # NoPending
  /\ IF outcome = "ok"
     THEN /\ row' = Applied(row, sess[s].pending)
          /\ sectionPatches' = sectionPatches + 1
          /\ sess' = [sess EXCEPT ![s] =
               [@ EXCEPT !.pageState = "success", !.isSubmitting = FALSE,
                         !.pending = NoPending]]
     ELSE /\ UNCHANGED <<row, sectionPatches>>
          /\ sess' = [sess EXCEPT ![s] =
               [@ EXCEPT !.isSubmitting = FALSE, !.pending = NoPending]]
  /\ UNCHANGED docPatches
  /\ OnlyStore

\* the document operations of the form and the verdict a validation brings
DocUpdates ==
  {<<"photo", FALSE>>, <<"validated", TRUE>>, <<"validated", FALSE>>, <<"passport", FALSE>>}

\* EmployeeForm: handlePhotoUpload, the photo's onValidated and handlePassportUpload,
\* each ending in updateDocumentReferences with the form's current documents
DocUpdate(s, kind, validated, ok) ==
  /\ EmployeeFormShown(s)
  /\ docPatches < MaxDocPatches
  /\ kind = "validated" => sess[s].docs.photo # 0
  /\ LET d == sess[s].docs
         nd == CASE kind = "photo" -> [d EXCEPT !.photo = 1, !.validated = FALSE]
                 [] kind = "validated" -> [d EXCEPT !.validated = validated]
                 [] OTHER -> [d EXCEPT !.passport = 1]
     IN /\ sess' = [sess EXCEPT ![s] = [@ EXCEPT !.docs = nd]]
        /\ IF ok
           THEN /\ row' = updateDocumentReferences(row, nd)
                /\ docPatches' = docPatches + 1
           ELSE UNCHANGED <<row, docPatches>>
  /\ UNCHANGED sectionPatches
  /\ OnlyStore

\* the page is loaded again: a fresh OnboardingPage
Reload(s) ==
  /\ sess[s].pageState # "loading"
  /\ sess[s].pending = NoPending
  /\ sess' = [sess EXCEPT ![s] = SessInit]
  /\ UNCHANGED <<row, sectionPatches, docPatches>>
  /\ OnlyStore

NextStore ==
  \/ \E s \in Sessions, outcome \in {"row", "null", "throw"} : Load(s, outcome)
  \/ \E s \in Sessions : EmployerSubmit(s)
  \/ \E s \in Sessions : EmployeeSubmit(s)
  \/ \E s \in Sessions, outcome \in {"ok", "error", "throw"} : StoreAnswers(s, outcome)
  \/ \E s \in Sessions, u \in DocUpdates, ok \in BOOLEAN : DocUpdate(s, u[1], u[2], ok)
  \/ \E s \in Sessions : Reload(s)

SpecStore == InitStore /\ [][NextStore]_vars

\* ---------------------------------------------------- properties of SpecStore

\* C4, as stated: at most two updates are ever applied to the row, one per
\* section, and none of them comes from a document operation.
C4_AtMostTwoPatches ==
  /\ sectionPatches + docPatches <= 2
  /\ docPatches = 0

\* what a section-completion update writes
SectionFields(r) ==
  <<r.status, r.current_step, r.employer_data, r.employer_signature_data,
    r.employee_data, r.employee_signature_data>>

\* C4, amended: section data, signatures, status and current_step change only
\* with a section-completion update (updateEmployerData, updateEmployeeData or
\* updateSamePersonData); the other updates the application applies to the row,
\* the updateDocumentReferences of the document operations, change documents
\* only. The number of updates is not bounded by two.
C4_PatchKinds ==
  [][ /\ SectionFields(row') # SectionFields(row) =>
           /\ sectionPatches' = sectionPatches + 1
           /\ row'.documents = row.documents
      /\ row'.documents # row.documents =>
           /\ docPatches' = docPatches + 1
           /\ SectionFields(row') = SectionFields(row)
      /\ docPatches' # docPatches => SectionFields(row') = SectionFields(row)
    ]_vars

C4_Witness ==
  /\ docPatches >= 1 /\ sectionPatches >= 2
  /\ row.status = "complete" /\ row.documents.photo # 0

TerminalStates == {"not_found", "cancelled", "already_complete", "success", "error"}
FormStates == {"employer", "employee", "combined"}

\* C20: a page starts in 'loading' and its load sets pageState once;
\* afterwards pageState changes only to 'success', and only with a store
\* update that returned true; 'not_found', 'cancelled', 'already_complete',
\* 'success' and 'error' are never left by the page that entered them; the
\* three section updates are invoked only in 'employer', 'employee' or
\* 'combined'.
C20_PageStates ==
  /\ [](\A s \in Sessions :
         /\ sess[s].pageState \in {"loading"} \cup TerminalStates \cup FormStates
         /\ sess[s].pending # NoPending => sess[s].pageState \in FormStates
         /\ sess[s].pageState = "loading" => sess[s] = SessInit)
  /\ [][\A s \in Sessions :
         (sess'[s].pageState # sess[s].pageState /\ sess'[s] # SessInit) =>
           \/ sess[s].pageState = "loading"
           \/ /\ sess[s].pageState \in FormStates
              /\ sess'[s].pageState = "success"
              /\ sess[s].pending # NoPending
              /\ sectionPatches' = sectionPatches + 1
              /\ row' = Applied(row, sess[s].pending)]_vars

C20_Witness ==
  \E s, t \in Sessions :
    /\ sess[s].pageState = "success" /\ sess[t].pageState = "error"
    /\ sectionPatches = 2 /\ row.status = "complete"

\* a page session that loaded a same-person row
SamePerson(s) == sess[s].submission # NoSubmission /\ sess[s].submission.is_same_person

\* C14: in same-person mode the employer submit issues no store update and
\* captures the employer data locally; the employee section is shown only
\* after that; each employee submit issues one updateSamePersonData call
\* carrying both sections and the signature drawn in the employer section;
\* the update stores both sections, that one signature for both, and
\* current_step = status = 'complete'; updateEmployerData and
\* updateEmployeeData are never called in this mode.
C14_SamePersonFlow ==
  /\ [](\A s \in Sessions : SamePerson(s) =>
         /\ sess[s].pending.op \in {"none", "updateSamePersonData"}
         /\ sess[s].showEmployeeSection => sess[s].employerData # 0
         /\ EmployeeFormShown(s) => sess[s].employerData # 0
         /\ sess[s].pending.op = "updateSamePersonData" =>
              /\ sess[s].pending.employerData # 0 /\ sess[s].pending.data # 0
              /\ sess[s].pending.signature = 1)
  /\ [](row.is_same_person /\ row.status = "complete" =>
         /\ row.employer_data # 0 /\ row.employee_data # 0
         /\ row.employer_signature_data = 1 /\ row.employee_signature_data = 1
         /\ row.current_step = "complete")
  /\ [][\A s \in Sessions :
         /\ (SamePerson(s) /\ ~sess[s].showEmployeeSection /\ sess'[s].showEmployeeSection)
              => row' = row /\ sess'[s].pending = NoPending
         /\ (row.is_same_person /\ row' # row /\ row'.documents = row.documents)
              => /\ row = [row' EXCEPT !.status = "pending", !.current_step = "employer",
                                       !.employer_data = row.employer_data,
                                       !.employee_data = row.employee_data,
                                       !.employer_signature_data = row.employer_signature_data,
                                       !.employee_signature_data = row.employee_signature_data]
                 /\ row'.status = "complete"]_vars

C14_Witness ==
  /\ row.is_same_person /\ row.status = "complete" /\ sectionPatches = 1
  /\ \E s \in Sessions : SamePerson(s) /\ sess[s].pageState = "success"
  /\ \E s \in Sessions :
       SamePerson(s) /\ sess[s].pageState = "combined" /\ sess[s].showEmployeeSection

\* the success page tells the employer that an email has been sent to the employee
EmailSentShown(s) ==
  /\ sess[s].pageState = "success"
  /\ ~sess[s].submission.is_same_person
  /\ sess[s].submission.current_step = "employer"

\* C11, as stated: the success page that says an email has been sent to the
\* employee is shown only after the page has issued its POST to
\* /api/notify-employer-complete.
C11_NotifiedBeforeEmailPage == \A s \in Sessions : EmailSentShown(s) => nt.posts > 0

\* C5, as stated: once the row has status complete no action of any session
\* changes it.
C5_CompleteIsReadOnly == [][row.status = "complete" => row' = row]_vars

\* ------------------------------------------------------------------- SpecDocs
\* One EmployeeForm; file selections overlap because every handler awaits the
\* network. State and ref of a document are set together by every handler, so
\* the ref stands for both. Each updateDocumentReferences succeeds and is
\* applied when it is issued, which is application in issue order.
OnlyDocs ==
  UNCHANGED <<aiVars, storeVars, formVars, notifyVars, clientVars, sigVars,
              uploadVars, pagesVars>>

InitDocs ==
  /\ AIIdle
  /\ StoreIdle
  /\ DocsIdle
  /\ FormsIdle
  /\ PagesIdle
  /\ UploadsIdle
  /\ SigIdle
  /\ ClientIdle
  /\ NotifyIdle

\* PhotoUpload renders the upload area, otherwise the preview area
UploadAreaShown == ef.preview = 0 /\ ef.photoDocRef = NoPhoto

\* PhotoUpload.handleFileSelect up to the await of onUpload, for an image file
\* within the size limit
SelectPhoto(n) ==
  /\ ef.photoSel[n] = "none"
  /\ \A k \in PhotoFiles : k < n => ef.photoSel[k] # "none"
  /\ UploadAreaShown \/ ef.validationErrors
  /\ ef' = [ef EXCEPT !.validationErrors = FALSE,
                      !.previewPending = @ \cup {n},
                      !.isUploading = TRUE,
                      !.photoSel[n] = "uploading"]
  /\ UNCHANGED stored
  /\ OnlyDocs

\* reader.onload of the preview reader
PreviewLoads(n) ==
  /\ n \in ef.previewPending
  /\ ef' = [ef EXCEPT !.preview = n, !.previewPending = @ \ {n}]
  /\ UNCHANGED stored
  /\ OnlyDocs

\* EmployeeForm.handlePhotoUpload after uploadDocument, and the rest of
\* handleFileSelect's try / finally
PhotoUploaded(n, ok) ==
  /\ ef.photoSel[n] = "uploading"
  /\ IF ok
     THEN LET newDoc == [file |-> n, validated |-> FALSE, resultOf |-> 0]
          IN /\ ef' = [ef EXCEPT !.photoDocRef = newDoc, !.isUploading = FALSE,
                                 !.isValidating = TRUE, !.photoSel[n] = "validating"]
             /\ stored' = [photo |-> newDoc, passport |-> ef.passportDocRef]
     ELSE /\ ef' = [ef EXCEPT !.isUploading = FALSE, !.photoSel[n] = "done"]
          /\ UNCHANGED stored
  /\ OnlyDocs

\* the answer of /api/validate-photo for file n (or the catch of the request)
\* and EmployeeForm's onValidated
PhotoValidated(n, validated) ==
  /\ ef.photoSel[n] = "validating"
  /\ LET currentPhotoDoc == ef.photoDocRef
         updatedDoc == [currentPhotoDoc EXCEPT !.validated = validated, !.resultOf = n]
     IN IF currentPhotoDoc # NoPhoto
        THEN /\ ef' = [ef EXCEPT !.isValidating = FALSE, !.validationErrors = ~validated,
                                 !.photoDocRef = updatedDoc, !.photoSel[n] = "done"]
             /\ stored' = [photo |-> updatedDoc, passport |-> ef.passportDocRef]
        ELSE /\ ef' = [ef EXCEPT !.isValidating = FALSE, !.validationErrors = ~validated,
                                 !.photoSel[n] = "done"]
             /\ UNCHANGED stored
  /\ OnlyDocs

\* PhotoUpload.handleRemove and EmployeeForm's onRemove
RemovePhoto ==
  /\ ~UploadAreaShown
  /\ ef' = [ef EXCEPT !.preview = 0, !.validationErrors = FALSE, !.photoDocRef = NoPhoto]
  /\ UNCHANGED stored
  /\ OnlyDocs

\* PassportUpload.handleFileSelect up to the await of onUpload
SelectPassport(m) ==
  /\ ef.passSel[m] = "none"
  /\ \A k \in PassportFiles : k < m => ef.passSel[k] # "none"
  /\ ef' = [ef EXCEPT !.passSel[m] = "uploading"]
  /\ UNCHANGED stored
  /\ OnlyDocs

\* EmployeeForm.handlePassportUpload after uploadDocument
PassportUploaded(m, ok) ==
  /\ ef.passSel[m] = "uploading"
  /\ IF ok
     THEN /\ ef' = [ef EXCEPT !.passportDocRef = m, !.passSel[m] = "done"]
          /\ stored' = [photo |-> ef.photoDocRef, passport |-> m]
     ELSE /\ ef' = [ef EXCEPT !.passSel[m] = "done"]
          /\ UNCHANGED stored
  /\ OnlyDocs

\* PassportUpload.handleRemove and EmployeeForm's onRemove
RemovePassport ==
  /\ ef.passportDocRef # 0
  /\ ef' = [ef EXCEPT !.passportDocRef = 0]
  /\ UNCHANGED stored
  /\ OnlyDocs

NextDocs ==
  \/ \E n \in PhotoFiles : SelectPhoto(n)
  \/ \E n \in PhotoFiles : PreviewLoads(n)
  \/ \E n \in PhotoFiles, ok \in BOOLEAN : PhotoUploaded(n, ok)
  \/ \E n \in PhotoFiles, validated \in BOOLEAN : PhotoValidated(n, validated)
  \/ RemovePhoto
  \/ \E m \in PassportFiles : SelectPassport(m)
  \/ \E m \in PassportFiles, ok \in BOOLEAN : PassportUploaded(m, ok)
  \/ RemovePassport

SpecDocs == InitDocs /\ [][NextDocs]_vars

\* ----------------------------------------------------- properties of SpecDocs

\* C7, as stated: the stored documents hold the latest photo with its own
\* validation result and the latest passport; no write drops or reverts the
\* other document.
C7_StoredDocsLatest ==
  /\ ef.photoDocRef # NoPhoto => stored.photo = ef.photoDocRef
  /\ ef.passportDocRef # 0 => stored.passport = ef.passportDocRef
  /\ stored.photo.resultOf \in {0, stored.photo.file}

\* ----------------------------------------------- SpecEmployeeForm, SpecEmployerForm
OnlyForms ==
  UNCHANGED <<aiVars, storeVars, docVars, notifyVars, clientVars, sigVars,
              uploadVars, pagesVars>>

DigitChars == {"0", "1", "2", "3", "4", "5", "6", "7", "8", "9"}
SpaceChars == {" "}

IbanDigits == 21
MobileDigits == 10

Digits(n) == [i \in 1..n |-> IF i = 1 THEN "0" ELSE "7"]

IsDigit(c) == c \in DigitChars
IsSpace(c) == c \in SpaceChars
\* the character class [^\s@]
IsLocalChar(c) == c \notin SpaceChars /\ c # "@"

\* /^[^\s@]+@[^\s@]+\.[^\s@]+$/
EmailRegex(s) ==
  \E i \in 1..Len(s), j \in 1..Len(s) :
    /\ 1 < i /\ i + 1 < j /\ j < Len(s)
    /\ s[i] = "@" /\ s[j] = "."
    /\ \A k \in 1..Len(s) : k # i => IsLocalChar(s[k])

\* the letters the inputs below use
ToUpperCase(c) ==
  CASE c = "a" -> "A" [] c = "e" -> "E" [] c = "g" -> "G" [] c = "b" -> "B" [] OTHER -> c

\* /^AE\d{21}$/ and, with ignoreCase, /^AE\d{21}$/i
IbanRegex(s, ignoreCase) ==
  /\ Len(s) = 2 + IbanDigits
  /\ (IF ignoreCase THEN ToUpperCase(s[1]) ELSE s[1]) = "A"
  /\ (IF ignoreCase THEN ToUpperCase(s[2]) ELSE s[2]) = "E"
  /\ \A k \in 3..Len(s) : IsDigit(s[k])

isValidEmail(email) == EmailRegex(email)

isValidUAEMobile(number) ==
  LET cleaned == SelectSeq(number, IsDigit)
  IN /\ Len(cleaned) = MobileDigits
     /\ cleaned[1] = "0" /\ cleaned[2] = "5"

NotSpace(c) == ~IsSpace(c)

isValidIBAN(iban) ==
  LET stripped == SelectSeq(iban, NotSpace)
      cleaned == [k \in 1..Len(stripped) |-> ToUpperCase(stripped[k])]
  IN IbanRegex(cleaned, FALSE)

\* react-hook-form's required rule on a text input
Required(v) == v # <<>>

\* the rules EmployeeForm registers for the fields it renders; others stands
\* for the rules of the remaining fields
EmployeeFormValid(f) ==
  /\ Required(f.personal_email) /\ EmailRegex(f.personal_email)
  /\ Required(f.mobile_uae)
  /\ f.has_uae_bank => Required(f.bank_iban) /\ IbanRegex(f.bank_iban, TRUE)
  /\ f.others

Emails ==
  { <<>>, <<"a", "@", "b", ".", "c">>, <<"a", "@", "b">>,
    <<"a", " ", "@", "b", ".", "c">>, <<"a", "@", "b", ".", "c", ".", "d">> }

Mobiles ==
  { <<>>, <<"0", "5">> \o Digits(MobileDigits - 2),
    <<"0", "5", "0", " ">> \o Digits(3) \o <<" ">> \o Digits(4),
    <<"1", "2", "3">>, <<"0", "4">> \o Digits(MobileDigits - 2) }

Ibans ==
  { <<>>, <<"A", "E">> \o Digits(IbanDigits), <<"a", "e">> \o Digits(IbanDigits),
    <<"A", "E">> \o Digits(2) \o <<" ">> \o Digits(IbanDigits - 2),
    <<"A", "E">> \o Digits(IbanDigits - 1), <<"G", "B">> \o Digits(IbanDigits) }

InitEmployeeForm ==
  /\ AIIdle
  /\ StoreIdle
  /\ DocsIdle
  /\ FormsIdle
  /\ PagesIdle
  /\ UploadsIdle
  /\ SigIdle
  /\ ClientIdle
  /\ NotifyIdle

\* the user edits one field, uploads or removes the photo, draws or clears the signature
EmployeeFormChange(field, v) ==
  /\ employeeForm[field] # v
  /\ employeeForm' = [employeeForm EXCEPT ![field] = v]
  /\ UNCHANGED <<employeeOutcome, employerForm, employerOutcome>>
  /\ OnlyForms

\* handleSubmit(handleFormSubmit): the registered rules, then the photo and
\* signature checks, then onSubmit
EmployeeFormSubmit ==
  /\ employeeOutcome' =
       IF ~EmployeeFormValid(employeeForm) THEN "errors"
       ELSE IF ~employeeForm.photoDoc THEN "photoError"
       ELSE IF ~employeeForm.signature THEN "signatureError"
       ELSE "onSubmit"
  /\ UNCHANGED <<employeeForm, employerForm, employerOutcome>>
  /\ OnlyForms

NextEmployeeForm ==
  \/ \E v \in Emails : EmployeeFormChange("personal_email", v)
  \/ \E v \in Mobiles : EmployeeFormChange("mobile_uae", v)
  \/ \E v \in Ibans : employeeForm.has_uae_bank /\ EmployeeFormChange("bank_iban", v)
  \/ \E field \in {"has_uae_bank", "others", "photoDoc", "signature"}, v \in BOOLEAN :
       EmployeeFormChange(field, v)
  \/ EmployeeFormSubmit

SpecEmployeeForm == InitEmployeeForm /\ [][NextEmployeeForm]_vars

\* --- the salary breakdown; an amount is a whole number of cents, <<>> when
\* the field is undefined
MaxTotalCents == 15

SalaryFields ==
  {"salary_total", "salary_basic", "salary_accommodation", "salary_transport",
   "salary_food", "salary_other"}

\* the default shares, in tenths of the total
DEFAULT_SALARY_BREAKDOWN ==
  [basic |-> 6, accommodation |-> 3, transport |-> 1, food |-> 0, other |-> 0]

\* `x || 0`
Value(v) == IF v = <<>> THEN 0 ELSE v[1]

\* Math.round(total * share * 100) / 100 for a total of t cents: the nearest
\* cent. An exact half cent is not a float the product can be relied on to
\* hit: the product lies just below or just above it, so either neighbour
\* comes out (0.35 * 0.1 * 100 is 3.4999999999999996, 0.45 * 0.1 * 100 is
\* 4.500000000000001).
RoundedShare(t, tenths) ==
  IF (t * tenths) % 10 = 5
    THEN {(t * tenths) \div 10, (t * tenths) \div 10 + 1}
    ELSE {(t * tenths + 5) \div 10}

\* calculateSalaryBreakdown without the adjustment of basic
calculateSalaryBreakdownUnadjusted(total) ==
  { [basic |-> basic, accommodation |-> accommodation, transport |-> transport,
     food |-> 0, other |-> 0] :
      basic \in RoundedShare(total, DEFAULT_SALARY_BREAKDOWN.basic),
      accommodation \in RoundedShare(total, DEFAULT_SALARY_BREAKDOWN.accommodation),
      transport \in RoundedShare(total, DEFAULT_SALARY_BREAKDOWN.transport) }

\* calculateSalaryBreakdown(total): the breakdowns it can return
calculateSalaryBreakdown(total) ==
  { [basic |-> basic + (total - (basic + accommodation + transport + 0 + 0)),
     accommodation |-> accommodation, transport |-> transport,
     food |-> 0, other |-> 0] :
      basic \in RoundedShare(total, DEFAULT_SALARY_BREAKDOWN.basic),
      accommodation \in RoundedShare(total, DEFAULT_SALARY_BREAKDOWN.accommodation),
      transport \in RoundedShare(total, DEFAULT_SALARY_BREAKDOWN.transport) }

Abs(n) == IF n < 0 THEN -n ELSE n

\* the comparisons of a float difference of d cents with 0.01: decided unless
\* d is exactly one cent, where the difference falls on either side of 0.01
\* (0.03 - 0.02 is 0.009999999999999998, 0.07 - 0.06 is 0.010000000000000009)
ExceedsOneCent(d) == IF d = 1 THEN BOOLEAN ELSE {d > 1}
BelowOneCent(d) == IF d = 1 THEN BOOLEAN ELSE {d < 1}

\* validateSalaryBreakdown: the results it can return
validateSalaryBreakdown(total, basic, accommodation, transport, food, other) ==
  LET sum == basic + accommodation + transport + food + other
      difference == Abs(sum - total)
  IN  { [valid |-> v, difference |-> difference] : v \in BelowOneCent(difference) }

\* SalaryBreakdown: the sum of the parts shown under the total
SalarySum(f) ==
  Value(f.salary_basic) + Value(f.salary_accommodation) + Value(f.salary_transport)
    + Value(f.salary_food) + Value(f.salary_other)

\* SalaryBreakdown: the values hasDiscrepancy can have for the form's fields
hasDiscrepancy(f) ==
  IF f.salary_total # <<>> /\ f.salary_total[1] > 0
    THEN ExceedsOneCent(Abs(SalarySum(f) - f.salary_total[1]))
    ELSE {FALSE}

\* handleTotalChange(newTotal): the values it can pass to onChange
handleTotalChange(newTotal) ==
  IF newTotal = <<>>
    THEN { [salary_total |-> <<>>, salary_basic |-> <<>>, salary_accommodation |-> <<>>,
            salary_transport |-> <<>>, salary_food |-> <<>>, salary_other |-> <<>>] }
    ELSE { [salary_total |-> newTotal,
            salary_basic |-> <<newBasic + (newTotal[1]
                               - (newBasic + newAccommodation + newTransport + 0 + 0))>>,
            salary_accommodation |-> <<newAccommodation>>,
            salary_transport |-> <<newTransport>>,
            salary_food |-> <<0>>, salary_other |-> <<0>>] :
             newBasic \in RoundedShare(newTotal[1], DEFAULT_SALARY_BREAKDOWN.basic),
             newAccommodation \in
               RoundedShare(newTotal[1], DEFAULT_SALARY_BREAKDOWN.accommodation),
             newTransport \in RoundedShare(newTotal[1], DEFAULT_SALARY_BREAKDOWN.transport) }

\* EmployerForm.handleSalaryChange: setValue for every salary field
handleSalaryChange(f, values) ==
  [k \in DOMAIN f |-> IF k \in SalaryFields THEN values[k] ELSE f[k]]

\* the rules EmployerForm registers for the fields it renders
NumberValid(v) == Required(v) /\ v[1] >= 0

EmployerFormValid(f) ==
  /\ f.job_title = "Other" => f.job_title_custom # ""
  /\ f.department = "Other" => f.department_custom # ""
  /\ NumberValid(f.annual_leave_days)
  /\ NumberValid(f.notice_period_value)
  /\ NumberValid(f.probation_period_value)

Choices == {"", "Accountant", "Other"}
Customs == {"", "Auditor"}
NumberInputs == {<<>>, <<-5>>, <<30>>}
Salaries == {<<>>, <<5000>>}
WeeklyOffs == {"sunday", "saturday_sunday"}
Dates == {"", "2026-01-01"}

InitEmployerForm ==
  /\ AIIdle
  /\ StoreIdle
  /\ DocsIdle
  /\ FormsIdle
  /\ PagesIdle
  /\ UploadsIdle
  /\ SigIdle
  /\ ClientIdle
  /\ NotifyIdle

\* the user picks from a dropdown, types into an input, sets the salary or
\* the date, draws or clears the signature
EmployerFormChange(field, v) ==
  /\ employerForm[field] # v
  /\ employerForm' = [employerForm EXCEPT ![field] = v]
  /\ UNCHANGED <<employerOutcome, employeeForm, employeeOutcome>>
  /\ OnlyForms

\* the user types a total: handleTotalChange, then handleSalaryChange
SalaryTotalChange(newTotal) ==
  /\ \E values \in handleTotalChange(newTotal) :
       employerForm' = handleSalaryChange(employerForm, values)
  /\ UNCHANGED <<employerOutcome, employeeForm, employeeOutcome>>
  /\ OnlyForms

\* the user opens the breakdown and types one part: the other salary fields
\* are passed on as they are
SalaryPartChange(field, v) ==
  /\ employerForm' =
       handleSalaryChange(employerForm,
         [k \in SalaryFields |-> IF k = field THEN v ELSE employerForm[k]])
  /\ UNCHANGED <<employerOutcome, employeeForm, employeeOutcome>>
  /\ OnlyForms

\* handleSetTotalFromSum, offered while the breakdown reports a mismatch
SetTotalFromSum ==
  /\ TRUE \in hasDiscrepancy(employerForm)
  /\ employerForm' =
       handleSalaryChange(employerForm,
         [k \in SalaryFields |->
            IF k = "salary_total" THEN <<SalarySum(employerForm)>> ELSE employerForm[k]])
  /\ UNCHANGED <<employerOutcome, employeeForm, employeeOutcome>>
  /\ OnlyForms

\* handleSubmit(handleFormSubmit): the registered rules, then the signature
\* check, then onSubmit
EmployerFormSubmit ==
  /\ employerOutcome' =
       IF ~EmployerFormValid(employerForm) THEN "errors"
       ELSE IF ~employerForm.signature THEN "signatureError"
       ELSE "onSubmit"
  /\ UNCHANGED <<employerForm, employeeForm, employeeOutcome>>
  /\ OnlyForms

NextEmployerForm ==
  \/ \E field \in {"job_title", "department"}, v \in Choices \ {""} :
       EmployerFormChange(field, v)
  \/ \E v \in Customs :
       employerForm.job_title = "Other" /\ EmployerFormChange("job_title_custom", v)
  \/ \E v \in Customs :
       employerForm.department = "Other" /\ EmployerFormChange("department_custom", v)
  \/ \E v \in Salaries : SalaryTotalChange(v)
  \/ \E v \in WeeklyOffs : EmployerFormChange("weekly_off", v)
  \/ \E v \in Dates : EmployerFormChange("starting_date", v)
  \/ \E field \in {"annual_leave_days", "notice_period_value", "probation_period_value"},
        v \in NumberInputs : EmployerFormChange(field, v)
  \/ \E v \in BOOLEAN : EmployerFormChange("signature", v)
  \/ EmployerFormSubmit

SpecEmployerForm == InitEmployerForm /\ [][NextEmployerForm]_vars

\* ------------------------------------------------------ properties of the forms

\* C8, as stated: EmployeeForm calls onSubmit only when personal_email is a
\* valid email, mobile_uae a valid UAE mobile number and, with has_uae_bank
\* set, bank_iban a valid UAE IBAN; and the rules of the form agree with
\* isValidEmail, isValidUAEMobile and isValidIBAN on every input.
C8_FormatsEnforced ==
  /\ [][employeeOutcome' = "onSubmit" /\ employeeOutcome # "onSubmit" =>
          /\ isValidEmail(employeeForm.personal_email)
          /\ isValidUAEMobile(employeeForm.mobile_uae)
          /\ employeeForm.has_uae_bank => isValidIBAN(employeeForm.bank_iban)]_vars
  /\ [](employeeForm.others =>
          (EmployeeFormValid(employeeForm) <=>
             /\ isValidEmail(employeeForm.personal_email)
             /\ isValidUAEMobile(employeeForm.mobile_uae)
             /\ employeeForm.has_uae_bank => isValidIBAN(employeeForm.bank_iban)))

\* C9, as stated: EmployerForm calls onSubmit only when job title, department,
\* monthly salary total, weekly off and starting date are non-empty, the
\* custom job title / department is given when 'Other' is chosen, and the
\* signature is not null.
C9_RequiredEnforced ==
  [][employerOutcome' = "onSubmit" /\ employerOutcome # "onSubmit" =>
       /\ employerForm.job_title # ""
       /\ employerForm.department # ""
       /\ employerForm.salary_total # <<>>
       /\ employerForm.weekly_off # ""
       /\ employerForm.starting_date # ""
       /\ employerForm.job_title = "Other" => employerForm.job_title_custom # ""
       /\ employerForm.department = "Other" => employerForm.department_custom # ""
       /\ employerForm.signature]_vars

\* ----------------------------------------------------------------- SpecSalary
\* The salary section of EmployerForm: the total, the five parts, the
\* signature and the submit button.
Totals == {<<>>} \cup {<<t>> : t \in 0..MaxTotalCents}
PartInputs == {<<>>, <<3>>}

NextSalary ==
  \/ \E newTotal \in Totals : SalaryTotalChange(newTotal)
  \/ \E field \in SalaryFields \ {"salary_total"}, v \in PartInputs :
       SalaryPartChange(field, v)
  \/ SetTotalFromSum
  \/ \E v \in BOOLEAN : EmployerFormChange("signature", v)
  \/ EmployerFormSubmit

SpecSalary == InitEmployerForm /\ [][NextSalary]_vars

\* -------------------------------------------------- properties of the salary

\* C15, as stated: EmployerForm does not call onSubmit while SalaryBreakdown
\* reports a mismatch, i.e. while the sum of the five parts differs from
\* salary_total by more than 0.01.
C15_MismatchBlocksSubmit ==
  [][employerOutcome' = "onSubmit" /\ employerOutcome # "onSubmit" =>
       FALSE \in hasDiscrepancy(employerForm)]_vars

\* the parts of a breakdown b of a total of t cents are the default ones
DefaultBreakdownOf(b, t) ==
  /\ b.accommodation \in RoundedShare(t, 3)
  /\ b.transport \in RoundedShare(t, 1)
  /\ b.food = 0 /\ b.other = 0
  /\ \E share \in RoundedShare(t, 6) :
       b.basic = share + (t - (share + b.accommodation + b.transport))
  /\ b.basic + b.accommodation + b.transport + b.food + b.other = t
  /\ b.basic >= 0 /\ b.accommodation >= 0 /\ b.transport >= 0
  /\ validateSalaryBreakdown(t, b.basic, b.accommodation, b.transport, b.food, b.other)
       = {[valid |-> TRUE, difference |-> 0]}

FormBreakdown(f) ==
  [basic |-> Value(f.salary_basic), accommodation |-> Value(f.salary_accommodation),
   transport |-> Value(f.salary_transport), food |-> Value(f.salary_food),
   other |-> Value(f.salary_other)]

\* C16: for the total of the form, calculateSalaryBreakdown and
\* handleTotalChange give accommodation = 30 % and transport = 10 % of the
\* total rounded to a nearest cent, food = other = 0 and basic = the 60 % share
\* plus the rounding remainder; the five parts sum to the total, none is
\* negative, and neither validateSalaryBreakdown nor hasDiscrepancy reports a
\* mismatch. A step that sets a new total leaves such a breakdown in the form.
C16_DefaultBreakdown ==
  /\ [](employerForm.salary_total # <<>> =>
          LET t == employerForm.salary_total[1]
          IN  /\ \A b \in calculateSalaryBreakdown(t) : DefaultBreakdownOf(b, t)
              /\ \A values \in handleTotalChange(<<t>>) :
                   /\ DefaultBreakdownOf(FormBreakdown(values), t)
                   /\ hasDiscrepancy(values) = {FALSE}
              /\ {FormBreakdown(values) : values \in handleTotalChange(<<t>>)}
                   = calculateSalaryBreakdown(t))
  /\ [][/\ employerForm'.salary_total # employerForm.salary_total
        /\ employerForm'.salary_total # <<>>
        /\ FormBreakdown(employerForm') # FormBreakdown(employerForm)
        => /\ DefaultBreakdownOf(FormBreakdown(employerForm'),
                                 employerForm'.salary_total[1])
           /\ hasDiscrepancy(employerForm') = {FALSE}]_vars

\* a total with a half cent in its 30 % and 10 % shares has been typed and broken down
C16_Witness ==
  /\ employerForm.salary_total = <<15>>
  /\ employerForm.salary_accommodation = <<4>>
  /\ employerForm.salary_transport = <<2>>
  /\ employerForm.salary_basic = <<9>>
  /\ employerForm.salary_food = <<0>>

\* ----------------------------------------------------------------- SpecNotify
OnlyNotify ==
  UNCHANGED <<aiVars, storeVars, docVars, formVars, clientVars, sigVars,
              uploadVars, pagesVars>>

InitNotify ==
  /\ AIIdle
  /\ StoreIdle
  /\ DocsIdle
  /\ FormsIdle
  /\ PagesIdle
  /\ UploadsIdle
  /\ SigIdle
  /\ ClientIdle
  /\ NotifyIdle

\* request bodies: not JSON, JSON without supabaseId, with an empty one, with
\* one, with one and a jobTitle
NotifyBodies == {"unreadable", "noId", "emptyId", "id", "idAndJobTitle"}

\* what the portal can answer: a status, a body that is JSON or not, and in a
\* JSON body an error member ("" when absent) next to the rest of the object
PortalStatuses == {200, 201, 400, 404, 500}
PortalAnswers ==
  [status : PortalStatuses,
   body : [json : BOOLEAN, error : {"", "Unknown submission"}, payload : {"A", "B"}]]

\* response.ok
Ok(status) == 200 <= status /\ status <= 299

ErrorBody(msg) == [error |-> msg]

NotifyFailed == [status |-> 500, body |-> ErrorBody("Failed to notify employer completion")]

\* the route with the status looked at before the body is parsed
PortalPassedOnStatusFirst(a) ==
  IF ~Ok(a.status)
  THEN [status |-> a.status,
        body |-> ErrorBody(IF a.body.json /\ a.body.error # "" THEN a.body.error
                           ELSE "Failed to notify TME Portal")]
  ELSE IF ~a.body.json THEN NotifyFailed
  ELSE [status |-> 200, body |-> a.body]

\* lines 44-56 of the route: response.json(), then response.ok
PortalPassedOn(a) ==
  IF ~a.body.json THEN NotifyFailed
  ELSE IF ~Ok(a.status)
  THEN [status |-> a.status,
        body |-> ErrorBody(IF a.body.error # "" THEN a.body.error
                           ELSE "Failed to notify TME Portal")]
  ELSE [status |-> 200, body |-> a.body]

\* POST up to the await of fetch, or up to its early return
NotifyPost(body) ==
  /\ nt.pc = "idle"
  /\ nt.posts < MaxNotifyPosts
  /\ nt' =
       IF body = "unreadable"
       THEN [nt EXCEPT !.pc = "done", !.body = body, !.posts = @ + 1, !.resp = NotifyFailed]
       ELSE IF body \in {"noId", "emptyId"}
       THEN [nt EXCEPT !.pc = "done", !.body = body, !.posts = @ + 1,
                       !.resp = [status |-> 400,
                                 body |-> ErrorBody("Supabase ID is required")]]
       ELSE [nt EXCEPT !.pc = "awaitPortal", !.body = body, !.posts = @ + 1,
                       !.sent = @ + 1]
  /\ OnlyNotify

\* the portal answers and the route passes the answer on
PortalAnswer(a) ==
  /\ nt.pc = "awaitPortal"
  /\ nt' = [nt EXCEPT !.pc = "done", !.portal = a, !.resp = PortalPassedOn(a)]
  /\ OnlyNotify

\* fetch rejects
PortalUnreachable ==
  /\ nt.pc = "awaitPortal"
  /\ nt' = [nt EXCEPT !.pc = "done", !.resp = NotifyFailed]
  /\ OnlyNotify

\* the response is sent; the process is ready for its next request
NotifyReturn ==
  /\ nt.pc = "done"
  /\ nt' = [NtInit EXCEPT !.posts = nt.posts]
  /\ OnlyNotify

NextNotify ==
  \/ \E body \in NotifyBodies : NotifyPost(body)
  \/ \E a \in PortalAnswers : PortalAnswer(a)
  \/ PortalUnreachable
  \/ NotifyReturn

SpecNotify == InitNotify /\ [][NextNotify]_vars

\* --------------------------------------------------- properties of SpecNotify

\* C12: a body without supabaseId is answered 400 without a portal request;
\* otherwise exactly one request is sent; a non-OK JSON answer is passed on
\* with the portal's status and an error field, an OK JSON answer is passed
\* on with its body unchanged (status 200), and an unreadable body, a network
\* failure or a non-JSON portal answer is answered 500 with
\* 'Failed to notify employer completion'.
C12_NotifyAnswers ==
  /\ nt.sent <= 1
  /\ nt.pc = "awaitPortal" => nt.sent = 1
  /\ nt.pc = "done" =>
       IF nt.body \in {"noId", "emptyId"}
       THEN /\ nt.sent = 0
            /\ nt.resp = [status |-> 400, body |-> ErrorBody("Supabase ID is required")]
       ELSE IF nt.body = "unreadable"
       THEN nt.sent = 0 /\ nt.resp = NotifyFailed
       ELSE /\ nt.sent = 1
            /\ IF nt.portal = NoAnswer \/ ~nt.portal.body.json
               THEN nt.resp = NotifyFailed
               ELSE IF Ok(nt.portal.status)
               THEN nt.resp = [status |-> 200, body |-> nt.portal.body]
               ELSE /\ nt.resp.status = nt.portal.status
                    /\ nt.resp.body \in
                         {ErrorBody(nt.portal.body.error),
                          ErrorBody("Failed to notify TME Portal")}
                    /\ nt.resp.body.error # ""

C12_Witness ==
  /\ nt.pc = "done" /\ nt.body = "idAndJobTitle" /\ nt.sent = 1
  /\ nt.portal # NoAnswer /\ nt.portal.status = 404 /\ nt.portal.body.json
  /\ nt.resp = [status |-> 404, body |-> ErrorBody("Unknown submission")]
  /\ nt.posts = 2

\* ----------------------------------------------------------------- SpecClient
OnlyClient ==
  UNCHANGED <<aiVars, storeVars, docVars, formVars, notifyVars, sigVars,
              uploadVars, pagesVars>>

InitClient ==
  /\ AIIdle
  /\ StoreIdle
  /\ DocsIdle
  /\ FormsIdle
  /\ PagesIdle
  /\ UploadsIdle
  /\ SigIdle
  /\ NotifyIdle
  /\ sdk \in {[SdkInit EXCEPT !.key = k] : k \in ApiKeys}

\* getAnthropicClient without the cache: a client per call
getAnthropicClientUncached(c) ==
  IF c.key = ""
  THEN [c EXCEPT !.results = Append(@, [key |-> c.key, threw |-> TRUE, client |-> NoClient])]
  ELSE LET made == [id |-> c.built + 1, apiKey |-> c.key]
       IN [c EXCEPT !.cached = made, !.built = @ + 1,
                    !.results = Append(@, [key |-> c.key, threw |-> FALSE, client |-> made])]

\* getAnthropicClient(): the state of the module after one call
getAnthropicClientCall(c) ==
  IF c.cached = NoClient
  THEN IF c.key = ""
       THEN [c EXCEPT !.results =
               Append(@, [key |-> c.key, threw |-> TRUE, client |-> NoClient])]
       ELSE LET made == [id |-> c.built + 1, apiKey |-> c.key]
            IN [c EXCEPT !.cached = made, !.built = @ + 1,
                         !.results =
                           Append(@, [key |-> c.key, threw |-> FALSE, client |-> made])]
  ELSE [c EXCEPT !.results =
          Append(@, [key |-> c.key, threw |-> FALSE, client |-> c.cached])]

ClientCall ==
  /\ Len(sdk.results) < MaxClientCalls
  /\ sdk' = getAnthropicClientCall(sdk)
  /\ OnlyClient

\* the environment variable is set, changed or removed between two calls
KeyChange(k) ==
  /\ k # sdk.key
  /\ sdk' = [sdk EXCEPT !.key = k]
  /\ OnlyClient

NextClient ==
  \/ ClientCall
  \/ \E k \in ApiKeys : KeyChange(k)

SpecClient == InitClient /\ [][NextClient]_vars

\* --------------------------------------------------- properties of SpecClient

Calls == 1..Len(sdk.results)

\* C13, as stated: the client is constructed at most once, every successful
\* call returns the same instance, and a call throws exactly when the key is
\* unset at the time of the call, leaving nothing cached.
C13_ThrowsWheneverKeyUnset ==
  /\ sdk.built <= 1
  /\ \A i, j \in Calls :
       ~sdk.results[i].threw /\ ~sdk.results[j].threw =>
         sdk.results[i].client = sdk.results[j].client
  /\ \A i \in Calls : sdk.results[i].threw <=> sdk.results[i].key = ""

\* C13, amended: the client is constructed at most once, every successful
\* call returns the same instance, which is the cached one; a call throws
\* only when the key is unset and no client has been cached yet, and it
\* leaves nothing cached, so every call made with the key set succeeds; once
\* a client is cached, calls succeed also while the key is unset.
C13_LazySingleton ==
  /\ sdk.built <= 1
  /\ \A i, j \in Calls :
       ~sdk.results[i].threw /\ ~sdk.results[j].threw =>
         sdk.results[i].client = sdk.results[j].client
  /\ \A i \in Calls :
       /\ ~sdk.results[i].threw => sdk.results[i].client = sdk.cached /\ sdk.cached # NoClient
       /\ sdk.results[i].threw =>
            /\ sdk.results[i].key = ""
            /\ \A j \in 1..i : sdk.results[j].threw
       /\ sdk.results[i].key # "" => ~sdk.results[i].threw
  /\ (sdk.cached = NoClient) <=> (\A i \in Calls : sdk.results[i].threw)

C13_Witness ==
  /\ Len(sdk.results) = 4
  /\ sdk.results[1].threw /\ ~sdk.results[2].threw
  /\ sdk.results[3].key = "" /\ ~sdk.results[3].threw
  /\ sdk.results[4].key = "k2" /\ sdk.results[4].client.apiKey = "k1"

\* -------------------------------------------------------------- SpecSignature
OnlySig ==
  UNCHANGED <<aiVars, storeVars, docVars, formVars, notifyVars, clientVars,
              uploadVars, pagesVars>>

InitSignature ==
  /\ AIIdle
  /\ StoreIdle
  /\ DocsIdle
  /\ FormsIdle
  /\ PagesIdle
  /\ UploadsIdle
  /\ ClientIdle
  /\ NotifyIdle
  /\ sp = SpInit

\* the number of states prev.slice(-n) keeps
HistoryKeep == 10

\* prev.slice(-n)
SliceLast(prev, n) ==
  IF Len(prev) <= n THEN prev ELSE SubSeq(prev, Len(prev) - n + 1, Len(prev))

\* handleBegin: the canvas as it is goes on the history, then the stroke starts
handleBegin ==
  /\ ~sp.drawing
  /\ sp.strokes < MaxStrokes
  /\ sp' = [sp EXCEPT !.history = SliceLast(sp.history, HistoryKeep) \o <<sp.canvas>>,
                      !.drawing = TRUE,
                      !.strokes = sp.strokes + 1]
  /\ OnlySig

\* handleEnd: the stroke is on the canvas, which is a new image
handleEnd ==
  /\ sp.drawing
  /\ sp' = [sp EXCEPT !.canvas = sp.strokes,
                      !.isEmpty = FALSE,
                      !.canUndo = Len(sp.history) > 0,
                      !.signature = sp.strokes,
                      !.drawing = FALSE]
  /\ OnlySig

\* handleUndo, from the button or Ctrl+Z
handleUndo ==
  /\ ~sp.drawing
  /\ Len(sp.history) > 0
  /\ LET previousState == sp.history[Len(sp.history)]
         rest == SubSeq(sp.history, 1, Len(sp.history) - 1)
     IN  sp' = IF Len(sp.history) = 1
                 THEN [sp EXCEPT !.history = rest, !.canvas = 0, !.isEmpty = TRUE,
                                 !.canUndo = FALSE, !.signature = 0]
                 ELSE [sp EXCEPT !.history = rest, !.canvas = previousState,
                                 !.isEmpty = FALSE, !.canUndo = TRUE,
                                 !.signature = previousState]
  /\ OnlySig

\* handleClear, from the button, which is disabled while isEmpty
handleClear ==
  /\ ~sp.drawing
  /\ ~sp.isEmpty
  /\ sp' = [sp EXCEPT !.canvas = 0, !.isEmpty = TRUE, !.history = <<>>,
                      !.canUndo = FALSE, !.signature = 0]
  /\ OnlySig

NextSignature ==
  \/ handleBegin
  \/ handleEnd
  \/ handleUndo
  \/ handleClear

SpecSignature == InitSignature /\ [][NextSignature]_vars

\* C17, as stated: the undo history holds at most 10 saved canvas states, and
\* a stroke that begins with the history full drops the oldest state.
C17_HistoryKeepsTen ==
  /\ [](Len(sp.history) <= 10)
  /\ [][/\ sp'.drawing /\ ~sp.drawing
        /\ Len(sp.history) = 10
        => sp'.history = Tail(sp.history) \o <<sp.canvas>>]_vars

\* ---------------------------------------------------------------- SpecUploads
\* The two upload components with the answers of onUpload and of the routes
\* left open. One handleFileSelect runs at a time in a component; a file that
\* is rejected can be selected whenever the file dialog can be opened.
OnlyUploads ==
  UNCHANGED <<aiVars, storeVars, docVars, formVars, notifyVars, clientVars, sigVars,
              pagesVars>>

InitUploads ==
  /\ AIIdle
  /\ StoreIdle
  /\ DocsIdle
  /\ FormsIdle
  /\ PagesIdle
  /\ ClientIdle
  /\ NotifyIdle
  /\ SigIdle
  /\ photoUp = PhotoUploadInit
  /\ passportUp = PassportUploadInit

PassportKinds == {"none", "badType", "tooBig", "image", "pdf"}
UploadResults == {"ok", "null", "throws"}

\* PhotoUpload: the upload area or the 'Upload a new photo' button is shown
PhotoDialogOpens ==
  \/ ~photoUp.preview /\ ~photoUp.value
  \/ photoUp.validationErrors # <<>>

\* PhotoUpload.handleFileSelect with the file validation after the resets
PhotoFileSelectChecksLate(file) ==
  /\ PhotoDialogOpens
  /\ photoUp.onUploadCalls + photoUp.rejected < MaxSelects
  /\ file \in {"notImage", "tooBig"} \/ photoUp.pc = "idle"
  /\ photoUp' =
       IF file = "none" THEN photoUp
       ELSE IF file = "notImage"
         THEN [photoUp EXCEPT !.uploadError = "Please select an image file",
                              !.validationErrors = <<>>, !.rejected = @ + 1]
       ELSE IF file = "tooBig"
         THEN [photoUp EXCEPT !.uploadError = "File size must be less than 5MB",
                              !.validationErrors = <<>>, !.rejected = @ + 1]
       ELSE [photoUp EXCEPT !.uploadError = "null", !.validationErrors = <<>>,
                            !.readers = @ + 1, !.isUploading = TRUE,
                            !.onUploadCalls = @ + 1, !.pc = "uploading"]
  /\ UNCHANGED passportUp
  /\ OnlyUploads

\* PhotoUpload.handleFileSelect up to the await of onUpload
PhotoFileSelect(file) ==
  /\ PhotoDialogOpens
  /\ photoUp.onUploadCalls + photoUp.rejected < MaxSelects
  /\ file \in {"notImage", "tooBig"} \/ photoUp.pc = "idle"
  /\ photoUp' =
       IF file = "none" THEN photoUp
       ELSE IF file = "notImage"
         THEN [photoUp EXCEPT !.uploadError = "Please select an image file",
                              !.rejected = @ + 1]
       ELSE IF file = "tooBig"
         THEN [photoUp EXCEPT !.uploadError = "File size must be less than 5MB",
                              !.rejected = @ + 1]
       ELSE [photoUp EXCEPT !.uploadError = "null", !.validationErrors = <<>>,
                            !.readers = @ + 1, !.isUploading = TRUE,
                            !.onUploadCalls = @ + 1, !.pc = "uploading"]
  /\ UNCHANGED passportUp
  /\ OnlyUploads

\* reader.onload of the preview reader
PhotoPreviewLoad ==
  /\ photoUp.readers > 0
  /\ photoUp' = [photoUp EXCEPT !.readers = @ - 1, !.preview = TRUE]
  /\ UNCHANGED passportUp
  /\ OnlyUploads

\* onUpload settles (handlePhotoUpload sets the prop on success); finally
PhotoUploadSettles(res) ==
  /\ photoUp.pc = "uploading"
  /\ photoUp' =
       IF res = "ok"
         THEN [photoUp EXCEPT !.value = TRUE, !.isValidating = TRUE,
                              !.isUploading = FALSE, !.pc = "reading"]
         ELSE [photoUp EXCEPT !.uploadError = "Failed to upload file",
                              !.isUploading = FALSE, !.pc = "idle"]
  /\ UNCHANGED passportUp
  /\ OnlyUploads

\* reader.onload of the second reader: compress and post to /api/validate-photo
PhotoReaderLoad(sent) ==
  /\ photoUp.pc = "reading"
  /\ photoUp' =
       IF sent THEN [photoUp EXCEPT !.posts = @ + 1, !.pc = "posting"]
       ELSE [photoUp EXCEPT !.isValidating = FALSE,
               !.validationErrors = <<"Unable to validate photo. Please try again.">>,
               !.pc = "idle"]
  /\ UNCHANGED passportUp
  /\ OnlyUploads

\* the answer of /api/validate-photo: valid, not valid, or none
PhotoValidationAnswer(answer) ==
  /\ photoUp.pc = "posting"
  /\ photoUp' =
       [photoUp EXCEPT !.isValidating = FALSE, !.pc = "idle",
          !.validationErrors =
             IF answer = "valid" THEN <<>>
             ELSE IF answer = "invalid" THEN <<"Face not visible">>
             ELSE <<"Unable to validate photo. Please try again.">>]
  /\ UNCHANGED passportUp
  /\ OnlyUploads

\* PhotoUpload.handleRemove, from the preview area
PhotoRemove ==
  /\ photoUp.preview \/ photoUp.value
  /\ photoUp' = [photoUp EXCEPT !.preview = FALSE, !.validationErrors = <<>>,
                                !.uploadError = "null", !.value = FALSE]
  /\ UNCHANGED passportUp
  /\ OnlyUploads

\* PassportUpload: the upload area is shown
PassportDialogOpens == ~passportUp.preview /\ ~passportUp.value

\* PassportUpload.handleFileSelect up to the await of onUpload
PassportFileSelect(file) ==
  /\ PassportDialogOpens
  /\ passportUp.onUploadCalls + passportUp.rejected < MaxSelects
  /\ file \in {"badType", "tooBig"} \/ passportUp.pc = "idle"
  /\ passportUp' =
       IF file = "none" THEN passportUp
       ELSE IF file = "badType"
         THEN [passportUp EXCEPT !.uploadError = "Please select a JPG, PNG, or PDF file",
                                 !.rejected = @ + 1]
       ELSE IF file = "tooBig"
         THEN [passportUp EXCEPT !.uploadError = "File size must be less than 10MB",
                                 !.rejected = @ + 1]
       ELSE [passportUp EXCEPT !.uploadError = "null", !.extracted = FALSE,
                               !.readers = IF file = "image" THEN @ + 1 ELSE @,
                               !.preview = IF file = "image" THEN @ ELSE FALSE,
                               !.isUploading = TRUE,
                               !.onUploadCalls = @ + 1, !.pc = "uploading"]
  /\ UNCHANGED photoUp
  /\ OnlyUploads

\* reader.onload of the preview reader
PassportPreviewLoad ==
  /\ passportUp.readers > 0
  /\ passportUp' = [passportUp EXCEPT !.readers = @ - 1, !.preview = TRUE]
  /\ UNCHANGED photoUp
  /\ OnlyUploads

\* onUpload settles (handlePassportUpload sets the prop on success); finally
PassportUploadSettles(res) ==
  /\ passportUp.pc = "uploading"
  /\ passportUp' =
       IF res = "ok"
         THEN [passportUp EXCEPT !.value = TRUE, !.isExtracting = TRUE,
                                 !.isUploading = FALSE, !.pc = "reading"]
         ELSE [passportUp EXCEPT !.uploadError = "Failed to upload file",
                                 !.isUploading = FALSE, !.pc = "idle"]
  /\ UNCHANGED photoUp
  /\ OnlyUploads

\* reader.onload of the second reader: post to /api/extract-passport
PassportReaderLoad ==
  /\ passportUp.pc = "reading"
  /\ passportUp' = [passportUp EXCEPT !.posts = @ + 1, !.pc = "posting"]
  /\ UNCHANGED photoUp
  /\ OnlyUploads

\* the answer of /api/extract-passport: data, no data, or none
PassportExtractionAnswer(answer) ==
  /\ passportUp.pc = "posting"
  /\ passportUp' =
       IF answer = "data"
         THEN [passportUp EXCEPT !.isExtracting = FALSE, !.extracted = TRUE, !.pc = "idle"]
       ELSE IF answer = "noData"
         THEN [passportUp EXCEPT !.isExtracting = FALSE, !.extracted = TRUE,
                 !.uploadError = "Could not extract passport data", !.pc = "idle"]
       ELSE [passportUp EXCEPT !.isExtracting = FALSE,
               !.uploadError = "Unable to extract passport data. Please try again.",
               !.pc = "idle"]
  /\ UNCHANGED photoUp
  /\ OnlyUploads

\* PassportUpload.handleRemove, from the preview area
PassportRemove ==
  /\ passportUp.preview \/ passportUp.value
  /\ passportUp' = [passportUp EXCEPT !.preview = FALSE, !.extracted = FALSE,
                                      !.uploadError = "null", !.value = FALSE]
  /\ UNCHANGED photoUp
  /\ OnlyUploads

NextUploads ==
  \/ \E file \in Files : PhotoFileSelect(file)
  \/ PhotoPreviewLoad
  \/ \E res \in UploadResults : PhotoUploadSettles(res)
  \/ \E sent \in BOOLEAN : PhotoReaderLoad(sent)
  \/ \E answer \in {"valid", "invalid", "none"} : PhotoValidationAnswer(answer)
  \/ PhotoRemove
  \/ \E file \in PassportKinds : PassportFileSelect(file)
  \/ PassportPreviewLoad
  \/ \E res \in UploadResults : PassportUploadSettles(res)
  \/ PassportReaderLoad
  \/ \E answer \in {"data", "noData", "none"} : PassportExtractionAnswer(answer)
  \/ PassportRemove

SpecUploads == InitUploads /\ [][NextUploads]_vars

\* the fields of a component other than uploadError and the count of rejections
PhotoRest(c) ==
  <<c.value, c.preview, c.readers, c.pc, c.isUploading, c.isValidating,
    c.validationErrors, c.onUploadCalls, c.posts>>

PassportRest(c) ==
  <<c.value, c.preview, c.readers, c.pc, c.isUploading, c.isExtracting,
    c.extracted, c.onUploadCalls, c.posts>>

\* C18: a file PhotoUpload or PassportUpload does not accept sets uploadError
\* and nothing else: onUpload is not called, the validation or extraction
\* route is not called, and the preview, the validation errors, the extracted
\* flag and the busy flags stay as they are.
C18_RejectedFileHasNoEffect ==
  /\ [][photoUp'.rejected # photoUp.rejected
        => /\ photoUp'.uploadError \in {"Please select an image file",
                                        "File size must be less than 5MB"}
           /\ PhotoRest(photoUp') = PhotoRest(photoUp)
           /\ passportUp' = passportUp]_vars
  /\ [][passportUp'.rejected # passportUp.rejected
        => /\ passportUp'.uploadError \in {"Please select a JPG, PNG, or PDF file",
                                           "File size must be less than 10MB"}
           /\ PassportRest(passportUp') = PassportRest(passportUp)
           /\ photoUp' = photoUp]_vars

\* a photo was rejected with the errors of an earlier validation on display,
\* and a passport was rejected while an upload was under way
C18_Witness ==
  /\ photoUp.rejected = 1
  /\ photoUp.uploadError = "File size must be less than 5MB"
  /\ photoUp.validationErrors # <<>> /\ photoUp.preview /\ photoUp.posts = 1
  /\ passportUp.rejected = 1
  /\ passportUp.uploadError = "Please select a JPG, PNG, or PDF file"
  /\ passportUp.isUploading /\ passportUp.onUploadCalls = 1

\* ------------------------------------------------------------ SpecPassportPages
\* PassportMultiUpload without initialPages. The two slots work side by side;
\* one handleUpload is under way per page at a time.
OnlyPages ==
  UNCHANGED <<aiVars, storeVars, docVars, formVars, notifyVars, clientVars, sigVars,
              uploadVars>>

InitPassportPages ==
  /\ AIIdle
  /\ StoreIdle
  /\ DocsIdle
  /\ FormsIdle
  /\ ClientIdle
  /\ NotifyIdle
  /\ SigIdle
  /\ UploadsIdle
  /\ pm = PmInit

\* setPages((prev) => ({...prev, [pageKey]: {...prev[pageKey], ...fields}}))
SetPage(pages, pageKey, page) == [pages EXCEPT ![pageKey] = page]

\* UploadSlot calls handleUpload(pageKey, expectedType, file) of the current
\* render: the call holds the pages of that render
handleUploadCalled(pageKey) ==
  /\ pm.call[pageKey].pc \in {"idle", "done"}
  /\ pm.call[pageKey].n < MaxPageUploads
  /\ pm' = [pm EXCEPT !.call[pageKey] =
              [pc |-> "reading", file |-> pm.call[pageKey].n + 1, pages |-> pm.pages,
               result |-> "none", n |-> pm.call[pageKey].n + 1, removed |-> FALSE]]
  /\ OnlyPages

\* the preview is read; 'Set validating state'
handleUploadPreview(pageKey) ==
  /\ pm.call[pageKey].pc = "reading"
  /\ pm' = [pm EXCEPT
              !.pages = SetPage(pm.pages, pageKey,
                          [pm.pages[pageKey] EXCEPT !.file = pm.call[pageKey].file,
                                                    !.preview = pm.call[pageKey].file,
                                                    !.validating = TRUE,
                                                    !.error = "null",
                                                    !.validated = FALSE]),
              !.call[pageKey].pc = "validating"]
  /\ OnlyPages

\* validatePageType answers
handleUploadValidation(pageKey, valid) ==
  /\ pm.call[pageKey].pc = "validating"
  /\ pm' = IF valid
             THEN [pm EXCEPT !.call[pageKey].pc = "uploading"]
             ELSE [pm EXCEPT
                     !.pages = SetPage(pm.pages, pageKey,
                                 [pm.pages[pageKey] EXCEPT
                                    !.validating = FALSE, !.validated = FALSE,
                                    !.error = "This is not the correct page type"]),
                     !.call[pageKey].pc = "done",
                     !.call[pageKey].result = "false"]
  /\ OnlyPages

\* 'Update state with success': the pages of the call's render with this page
\* replaced go to setPages and to onPagesChange
Success(pageKey) ==
  LET newPages ==
        [pm.call[pageKey].pages EXCEPT ![pageKey] =
           [file |-> pm.call[pageKey].file, preview |-> pm.call[pageKey].file,
            validated |-> TRUE, validating |-> FALSE, error |-> "null",
            storagePath |-> pm.call[pageKey].file]]
  IN  [pm EXCEPT !.pages = newPages, !.report = newPages,
                 !.call[pageKey].pc = "done", !.call[pageKey].result = "true"]

\* onUpload answers; the cover goes on to the success update, the inside
\* pages to the extraction
handleUploadStored(pageKey, stored_) ==
  /\ pm.call[pageKey].pc = "uploading"
  /\ pm' = IF ~stored_
             THEN [pm EXCEPT
                     !.pages = SetPage(pm.pages, pageKey,
                                 [pm.pages[pageKey] EXCEPT
                                    !.validating = FALSE, !.validated = FALSE,
                                    !.error = "Failed to upload file"]),
                     !.call[pageKey].pc = "done",
                     !.call[pageKey].result = "false"]
           ELSE IF pageKey = "insidePages"
             THEN [pm EXCEPT !.call[pageKey].pc = "extracting"]
           ELSE Success(pageKey)
  /\ OnlyPages

\* extractPassportData returns, whatever the route answered
handleUploadExtracted ==
  /\ pm.call["insidePages"].pc = "extracting"
  /\ pm' = Success("insidePages")
  /\ OnlyPages

\* handleRemove of the current render, from the slot's preview
handleRemove(pageKey) ==
  /\ pm.pages[pageKey].preview # 0
  /\ LET newPages == [pm.pages EXCEPT ![pageKey] = EmptyPage]
     IN  pm' = [pm EXCEPT !.pages = newPages, !.report = newPages,
                          !.call[pageKey].removed = TRUE]
  /\ OnlyPages

NextPassportPages ==
  \/ \E pageKey \in PageKeys : handleUploadCalled(pageKey)
  \/ \E pageKey \in PageKeys : handleUploadPreview(pageKey)
  \/ \E pageKey \in PageKeys, valid \in BOOLEAN : handleUploadValidation(pageKey, valid)
  \/ \E pageKey \in PageKeys, stored_ \in BOOLEAN : handleUploadStored(pageKey, stored_)
  \/ handleUploadExtracted
  \/ \E pageKey \in PageKeys : handleRemove(pageKey)

SpecPassportPages == InitPassportPages /\ [][NextPassportPages]_vars

allPagesValid == pm.pages.cover.validated /\ pm.pages.insidePages.validated

\* the last handleUpload of the page returned true and the page was not removed since
UploadSucceeded(pageKey) ==
  /\ pm.call[pageKey].pc = "done"
  /\ pm.call[pageKey].result = "true"
  /\ ~pm.call[pageKey].removed

PageIsValid(page) == page.validated /\ ~page.validating /\ page.error = "null"

\* C19, as stated: once the upload of the cover and the upload of the inside
\* pages have both finished after passing page validation and storage upload,
\* in whatever order their steps were taken, both pages are validated, not
\* validating and without error, allPagesValid is true, and the last
\* onPagesChange report shows both pages validated.
C19_BothPagesValidated ==
  (UploadSucceeded("cover") /\ UploadSucceeded("insidePages")) =>
     /\ PageIsValid(pm.pages.cover)
     /\ PageIsValid(pm.pages.insidePages)
     /\ allPagesValid
     /\ pm.report = pm.pages
     /\ pm.report.cover.validated /\ pm.report.insidePages.validated

====
